---------------------------- MODULE Spec2Model ----------------------------
(***************************************************************************)
(* Model of the XZZPCB decoder: RawPCBParser (outer stream: XOR pass, file *)
(* header, tagged-block walk) and PartDataParser (decrypted part payload). *)
(* A buffer is a sequence of bytes; JavaScript offset o is index o + 1.    *)
(* A read past the end of a DataView throws RangeError; an operator that   *)
(* models a method that can throw returns a record with a field "threw".   *)
(***************************************************************************)
EXTENDS Integers, Sequences, FiniteSets, TLC

(***************************************************************************)
(* Program constants.                                                      *)
(***************************************************************************)
XY_SCALE == 1
KEY_OFFSET == 16
MAIN_SIZE_OFFSET == 64
MAIN_START == 68
DES_BLOCK == 8
REPLACEMENT_CHAR == 65533
PROGRESS_EVERY == 100
U32_LIMIT == 1073741824

\* The 11-byte sentinel 76 36 76 36 35 35 35 76 36 76 36 (hex).
Sentinel == <<118, 54, 118, 54, 53, 53, 53, 118, 54, 118, 54>>

\* hexToBytes("DCFC12AC00000000")
keyBytes == <<220, 252, 18, 172, 0, 0, 0, 0>>

Null == [type |-> "null"]

(***************************************************************************)
(* DataView reads (little-endian).  CanRead is the bounds test whose       *)
(* failure makes the DataView getter throw RangeError.                     *)
(***************************************************************************)
CanRead(buf, off, width) == off >= 0 /\ off + width <= Len(buf)

getUint8(buf, off) == buf[off + 1]

getUint16(buf, off) == buf[off + 1] + 256 * buf[off + 2]

\* TLC integers are 32 bits wide.  A word of 2^30 or more is represented by
\* U32_LIMIT: like the value it stands for, it exceeds every offset and every
\* buffer length of the model.
getUint32(buf, off) ==
    IF buf[off + 4] >= 64 THEN U32_LIMIT
    ELSE buf[off + 1] + 256 * buf[off + 2] + 65536 * buf[off + 3] + 16777216 * buf[off + 4]

getInt32(buf, off) ==
    LET top == IF buf[off + 4] >= 128 THEN buf[off + 4] - 256 ELSE buf[off + 4]
    IN  buf[off + 1] + 256 * buf[off + 2] + 65536 * buf[off + 3] + 16777216 * top

Scaled(v) == v \div XY_SCALE

\* slice(0, n) that keeps the whole buffer.
SliceToWhole(buf, n) == buf

\* ArrayBuffer.prototype.slice(0, n): the end is clamped to the length.
SliceTo(buf, n) == SubSeq(buf, 1, IF n < Len(buf) THEN n ELSE Len(buf))

\* The bytes [off, off + n) of a buffer (a Uint8Array view, copied).
Bytes(buf, off, n) == SubSeq(buf, off + 1, off + n)

(***************************************************************************)
(* Bitwise XOR of two bytes.                                               *)
(***************************************************************************)
RECURSIVE BitXor(_, _)
BitXor(a, b) ==
    IF a = 0 THEN b
    ELSE IF b = 0 THEN a
    ELSE (((a % 2) + (b % 2)) % 2) + 2 * BitXor(a \div 2, b \div 2)

(***************************************************************************)
(* TextDecoder('utf-8').decode: a string is its sequence of code points.   *)
(* An ASCII byte is its own code point; a lead byte C2..DF followed by a   *)
(* continuation byte is a two-byte sequence; any other byte is replaced by *)
(* U+FFFD.                                                                 *)
(***************************************************************************)
RECURSIVE Utf8Decode(_)
Utf8Decode(bs) ==
    IF bs = <<>> THEN <<>>
    ELSE IF bs[1] < 128 THEN <<bs[1]>> \o Utf8Decode(Tail(bs))
    ELSE IF /\ bs[1] >= 194 /\ bs[1] <= 223 /\ Len(bs) >= 2
            /\ bs[2] >= 128 /\ bs[2] <= 191
         THEN <<(bs[1] - 192) * 64 + (bs[2] - 128)>> \o Utf8Decode(Tail(Tail(bs)))
    ELSE <<REPLACEMENT_CHAR>> \o Utf8Decode(Tail(bs))

(***************************************************************************)
(* readString(length) of both parsers: no read when length = 0; otherwise  *)
(* a Uint8Array view of `length` bytes at the cursor (RangeError when it   *)
(* does not fit), the cursor advanced by length, the bytes decoded.        *)
(***************************************************************************)
\* readString that leaves out the last byte of the string.
readStringShort(buf, off, length) ==
    IF length = 0 THEN [threw |-> FALSE, off |-> off, val |-> <<>>]
    ELSE IF ~CanRead(buf, off, length) THEN [threw |-> TRUE, off |-> off, val |-> <<>>]
    ELSE [threw |-> FALSE, off |-> off + length,
          val |-> Utf8Decode(Bytes(buf, off, length - 1))]

readString(buf, off, length) ==
    IF length = 0 THEN [threw |-> FALSE, off |-> off, val |-> <<>>]
    ELSE IF ~CanRead(buf, off, length) THEN [threw |-> TRUE, off |-> off, val |-> <<>>]
    ELSE [threw |-> FALSE, off |-> off + length,
          val |-> Utf8Decode(Bytes(buf, off, length))]

(***************************************************************************)
(* findSequence: least i in 0 .. arrayLen - seqLen with the sequence at i, *)
(* else -1.                                                                *)
(***************************************************************************)
MatchesAt(array, sequence, i) ==
    \A j \in 1..Len(sequence) : array[i + j] = sequence[j]

\* findSequence with the last start position left out of the outer loop.
findSequenceShortOf(array, sequence) ==
    LET hits == {i \in 0..(Len(array) - Len(sequence) - 1) : MatchesAt(array, sequence, i)}
    IN  IF hits = {} THEN -1 ELSE CHOOSE i \in hits : \A k \in hits : i <= k

findSequence(array, sequence) ==
    LET hits == {i \in 0..(Len(array) - Len(sequence)) : MatchesAt(array, sequence, i)}
    IN  IF hits = {} THEN -1 ELSE CHOOSE i \in hits : \A k \in hits : i <= k

(***************************************************************************)
(* The XOR pass of parse: gated by byte 0x10; the key is read once before  *)
(* the loop; the range is [0, sentinel index) or the whole buffer.         *)
(***************************************************************************)
xoredDataLength(buf) ==
    LET sequenceIndex == findSequence(buf, Sentinel)
    IN  IF sequenceIndex # -1 THEN sequenceIndex ELSE Len(buf)

\* XorRange with the key added to each byte instead.
XorRangeAdd(buf, xorKey, n) ==
    [i \in 1..Len(buf) |-> IF i - 1 < n THEN (buf[i] + xorKey) % 256 ELSE buf[i]]

\* XorRange with the bound of the loop ignored.
XorRangeWhole(buf, xorKey, n) ==
    [i \in 1..Len(buf) |-> BitXor(buf[i], xorKey)]

XorRange(buf, xorKey, n) ==
    [i \in 1..Len(buf) |-> IF i - 1 < n THEN BitXor(buf[i], xorKey) ELSE buf[i]]

\* ApplyXor gated and keyed by the byte before 0x10.
ApplyXorWrongByte(buf) ==
    IF getUint8(buf, KEY_OFFSET - 1) # 0
    THEN XorRange(buf, getUint8(buf, KEY_OFFSET - 1), xoredDataLength(buf))
    ELSE buf

ApplyXor(buf) ==
    IF getUint8(buf, KEY_OFFSET) # 0
    THEN XorRange(buf, getUint8(buf, KEY_OFFSET), xoredDataLength(buf))
    ELSE buf

(***************************************************************************)
(* decryptWithDES.  CryptoJS is an external library: when it is not loaded *)
(* the method throws.  DES itself is outside this repository; the block    *)
(* cipher is represented by a keyed bijection on 8-byte blocks (the bytes  *)
(* of a block rotated by an amount derived from the key bytes), never by   *)
(* the identity.  The surrounding CryptoJS behaviour is kept: ECB over     *)
(* ceil(len / 8) blocks with a short last block zero-filled, Pkcs7.unpad   *)
(* taking the low byte of the word that holds the last significant byte    *)
(* and subtracting it from sigBytes without validation, and wordArrayToU8  *)
(* throwing RangeError when sigBytes has become negative.                  *)
(***************************************************************************)
KeyShift == ((keyBytes[1] + keyBytes[2] + keyBytes[3] + keyBytes[4]) % (DES_BLOCK - 1)) + 1

DESDecryptBlock(c) == [i \in 1..DES_BLOCK |-> c[((i - 1 + KeyShift) % DES_BLOCK) + 1]]

ZeroFill(data, n) == [i \in 1..n |-> IF i <= Len(data) THEN data[i] ELSE 0]

RECURSIVE ECBDecrypt(_)
ECBDecrypt(data) ==
    IF Len(data) = 0 THEN <<>>
    ELSE IF Len(data) <= DES_BLOCK THEN SubSeq(DESDecryptBlock(ZeroFill(data, DES_BLOCK)), 1, DES_BLOCK)
    ELSE SubSeq(DESDecryptBlock(SubSeq(data, 1, DES_BLOCK)), 1, DES_BLOCK)
             \o ECBDecrypt(SubSeq(data, DES_BLOCK + 1, Len(data)))

decryptWithDES(encryptedData, cryptoLoaded) ==
    IF ~cryptoLoaded THEN [threw |-> TRUE, val |-> <<>>]
    ELSE LET sigBytes == Len(encryptedData)
             unpadded(processed, nPaddingBytes) ==
                 IF sigBytes - nPaddingBytes < 0 THEN [threw |-> TRUE, val |-> <<>>]
                 ELSE [threw |-> FALSE,
                       val |-> SubSeq(processed, 1, sigBytes - nPaddingBytes)]
             decrypted(processed) ==
                 unpadded(processed,
                          IF sigBytes = 0 THEN 0
                          ELSE processed[((sigBytes - 1) \div 4) * 4 + 4])
         IN  decrypted(ECBDecrypt(encryptedData))

(***************************************************************************)
(* PartDataParser.                                                         *)
(***************************************************************************)
pin_block_size == 0

Threw(off) == [threw |-> TRUE, off |-> off, val |-> Null]

\* parseHeader reads from the untrimmed plaintext.
parseHeader(buf) ==
    IF ~(/\ CanRead(buf, 0, 4) /\ CanRead(buf, 8, 4) /\ CanRead(buf, 12, 4)
         /\ CanRead(buf, 16, 4) /\ CanRead(buf, 20, 1) /\ CanRead(buf, 22, 4))
    THEN Threw(0)
    ELSE LET named(size, name) ==
                 IF name.threw THEN Threw(26)
                 ELSE [threw |-> FALSE, off |-> name.off,
                       val |-> [part_size |-> getUint32(buf, 0),
                                part_x |-> getUint32(buf, 8),
                                part_y |-> getUint32(buf, 12),
                                part_rotation |-> getUint32(buf, 16),
                                visibility |-> getUint8(buf, 20),
                                part_group_name_size |-> size,
                                part_group_name |-> name.val]]
             sized(size) ==
                 named(size, IF size > 0 THEN readString(buf, 26, size)
                             ELSE [threw |-> FALSE, off |-> 26, val |-> <<>>])
         IN  sized(getUint32(buf, 22))

parseSubType01(view, off) ==
    IF ~CanRead(view, off, 36) THEN Threw(off)
    ELSE [threw |-> FALSE, off |-> off + 36,
          val |-> [type |-> "sub_type_01",
                   block_size |-> getUint32(view, off),
                   layer |-> getUint32(view, off + 4),
                   x1 |-> Scaled(getUint32(view, off + 8)),
                   y1 |-> Scaled(getUint32(view, off + 12)),
                   radius |-> Scaled(getUint32(view, off + 16)),
                   angle_start |-> Scaled(getUint32(view, off + 20)),
                   angle_end |-> Scaled(getUint32(view, off + 24)),
                   scale |-> Scaled(getUint32(view, off + 28)),
                   unknown_arc |-> Scaled(getUint32(view, off + 32))]]

\* parseSubType05 without the skip of the four trailing padding bytes.
parseSubType05NoPad(view, off) ==
    IF ~CanRead(view, off, 28) THEN Threw(off)
    ELSE [threw |-> FALSE, off |-> off + 28,
          val |-> [type |-> "sub_type_05",
                   block_size |-> getUint32(view, off),
                   layer |-> getUint32(view, off + 4),
                   x1 |-> Scaled(getUint32(view, off + 8)),
                   y1 |-> Scaled(getUint32(view, off + 12)),
                   x2 |-> Scaled(getUint32(view, off + 16)),
                   y2 |-> Scaled(getUint32(view, off + 20)),
                   scale |-> Scaled(getUint32(view, off + 24))]]

\* The four trailing padding bytes are skipped without being read.
parseSubType05(view, off) ==
    IF ~CanRead(view, off, 28) THEN Threw(off)
    ELSE [threw |-> FALSE, off |-> off + 28 + 4,
          val |-> [type |-> "sub_type_05",
                   block_size |-> getUint32(view, off),
                   layer |-> getUint32(view, off + 4),
                   x1 |-> Scaled(getUint32(view, off + 8)),
                   y1 |-> Scaled(getUint32(view, off + 12)),
                   x2 |-> Scaled(getUint32(view, off + 16)),
                   y2 |-> Scaled(getUint32(view, off + 20)),
                   scale |-> Scaled(getUint32(view, off + 24))]]

parseSubType06(view, off) ==
    IF ~(CanRead(view, off, 28) /\ CanRead(view, off + 28, 1) /\ CanRead(view, off + 30, 4))
    THEN Threw(off)
    ELSE LET labelled(labelSize, label) ==
                 IF label.threw THEN Threw(off + 34)
                 ELSE [threw |-> FALSE, off |-> label.off,
                       val |-> [type |-> "sub_type_06",
                                block_size |-> getUint32(view, off),
                                layer |-> getUint32(view, off + 4),
                                x |-> Scaled(getUint32(view, off + 8)),
                                y |-> Scaled(getUint32(view, off + 12)),
                                font_size |-> Scaled(getUint32(view, off + 16)),
                                font_scale |-> Scaled(getUint32(view, off + 20)),
                                font_rotation |-> Scaled(getUint32(view, off + 24)),
                                visibility |-> getUint8(view, off + 28),
                                label_size |-> labelSize,
                                label |-> label.val]]
             sized(labelSize) ==
                 labelled(labelSize,
                          IF labelSize > 0 THEN readString(view, off + 34, labelSize)
                          ELSE [threw |-> FALSE, off |-> off + 34, val |-> <<>>])
         IN  sized(getUint32(view, off + 30))

\* The flag taken from the wrong side of the comparison.
isThruHoleInverted(inner_diameter) == inner_diameter = 0

\* const isThruHole_pin = (inner_diameter !== 0)
isThruHole_pin(inner_diameter) == inner_diameter # 0

\* One pin record at off: 24 bytes, the name, then 36 bytes read and 13 skipped.
parsePin(view, off) ==
    IF ~CanRead(view, off, 24) THEN Threw(off)
    ELSE LET rest(pinNameSize, pinName, o) ==
                 IF pinName.threw THEN Threw(off + 24)
                 ELSE IF ~(CanRead(view, o, 9) /\ CanRead(view, o + 32, 4)) THEN Threw(o)
                 ELSE [threw |-> FALSE, off |-> o + 36 + 13,
                       val |-> [un1 |-> getUint32(view, off),
                                x |-> Scaled(getUint32(view, off + 4)),
                                y |-> Scaled(getUint32(view, off + 8)),
                                inner_diameter |-> Scaled(getUint32(view, off + 12)),
                                rotation |-> Scaled(getUint32(view, off + 16)),
                                name_size |-> pinNameSize,
                                name |-> pinName.val,
                                width |-> Scaled(getUint32(view, o)),
                                height |-> Scaled(getUint32(view, o + 4)),
                                shape |-> getUint8(view, o + 8),
                                net_index |-> getUint32(view, o + 32),
                                isThruHole_pin |->
                                    isThruHole_pin(Scaled(getUint32(view, off + 12)))]]
             named(pinNameSize, pinName) == rest(pinNameSize, pinName, pinName.off)
             sized(pinNameSize) ==
                 named(pinNameSize,
                       IF pinNameSize > 0 THEN readString(view, off + 24, pinNameSize)
                       ELSE [threw |-> FALSE, off |-> off + 24, val |-> <<>>])
         IN  sized(getUint32(view, off + 20))

RECURSIVE pinLoop(_, _, _, _, _)
pinLoop(view, off, blockSize, cur_block_size, pins) ==
    IF ~(off + blockSize <= cur_block_size)
    THEN [threw |-> FALSE, off |-> off, val |-> pins]
    ELSE LET read(pin) ==
                 IF pin.threw THEN Threw(off)
                 ELSE pinLoop(view, pin.off, blockSize, cur_block_size,
                              Append(pins, pin.val))
         IN  read(parsePin(view, off))

parseSubType09(view, off, cur_block_size) ==
    IF ~CanRead(view, off, 4) THEN Threw(off)
    ELSE LET looped(blockSize, loop) ==
                 IF loop.threw THEN Threw(off)
                 ELSE [threw |-> FALSE, off |-> loop.off,
                       val |-> [type |-> "sub_type_09", block_size |-> blockSize,
                                pins |-> loop.val]]
             sized(blockSize) ==
                 looped(blockSize, pinLoop(view, off + 4, blockSize, cur_block_size, <<>>))
         IN  sized(getUint32(view, off))

\* The cursor at which the loop of parseSubType09 reads the i-th pin of an array
\* whose first pin is at start: each pin before it moved the cursor over 24
\* bytes, its name, 36 bytes and the 13 skipped ones.
RECURSIVE pinCursor(_, _, _)
pinCursor(pins, start, i) ==
    IF i = 1 THEN start
    ELSE pinCursor(pins, start, i - 1) + 24 + pins[i - 1].name_size + 36 + 13

SubTags == {1, 5, 6, 9}

subBlockHandler(tag, view, off, cur_block_size) ==
    CASE tag = 1 -> parseSubType01(view, off)
      [] tag = 5 -> parseSubType05(view, off)
      [] tag = 6 -> parseSubType06(view, off)
      [] tag = 9 -> parseSubType09(view, off, cur_block_size)

\* The while loop going on with the next byte after an unknown identifier.
RECURSIVE subBlockLoopSkip(_, _, _, _)
subBlockLoopSkip(view, off, cur_block_size, subs) ==
    IF ~(off + pin_block_size < Len(view)) \/ off >= Len(view)
    THEN [threw |-> FALSE, off |-> off, val |-> subs]
    ELSE LET handled(sub) ==
                 IF sub.threw THEN [threw |-> TRUE, off |-> off, val |-> subs]
                 ELSE subBlockLoopSkip(view, sub.off, cur_block_size,
                                       Append(subs, sub.val))
             tagged(tag) ==
                 IF tag \notin SubTags
                 THEN subBlockLoopSkip(view, off + 1, cur_block_size, subs)
                 ELSE handled(subBlockHandler(tag, view, off + 1, cur_block_size))
         IN  tagged(getUint8(view, off))

\* The while loop of PartDataParser.parse over the trimmed view.  When a
\* sub-parser throws, val is result.sub_blocks as it was at the throw.
RECURSIVE subBlockLoop(_, _, _, _)
subBlockLoop(view, off, cur_block_size, subs) ==
    IF ~(off + pin_block_size < Len(view)) \/ off >= Len(view)
    THEN [threw |-> FALSE, off |-> off, val |-> subs]
    ELSE LET handled(sub) ==
                 IF sub.threw THEN [threw |-> TRUE, off |-> off, val |-> subs]
                 ELSE subBlockLoop(view, sub.off, cur_block_size, Append(subs, sub.val))
             tagged(tag) ==
                 IF tag \notin SubTags
                 THEN [threw |-> FALSE, off |-> off + 1, val |-> subs]
                 ELSE handled(subBlockHandler(tag, view, off + 1, cur_block_size))
         IN  tagged(getUint8(view, off))

\* The cursor positions at which the while loop of PartDataParser.parse reads
\* a sub-type identifier, in the order of the reads.
RECURSIVE subTagOffsets(_, _, _)
subTagOffsets(view, off, cur_block_size) ==
    IF ~(off + pin_block_size < Len(view)) \/ off >= Len(view)
    THEN <<>>
    ELSE LET handled(sub) ==
                 IF sub.threw THEN <<off>>
                 ELSE <<off>> \o subTagOffsets(view, sub.off, cur_block_size)
             tagged(tag) ==
                 IF tag \notin SubTags THEN <<off>>
                 ELSE handled(subBlockHandler(tag, view, off + 1, cur_block_size))
         IN  tagged(getUint8(view, off))

PartDataParse(arrayBuffer, t07blockSize) ==
    LET looped(header, loop) ==
            IF loop.threw THEN Threw(0)
            ELSE [threw |-> FALSE, off |-> loop.off,
                  val |-> [type |-> "part", header |-> header.val,
                           sub_blocks |-> loop.val]]
        headed(header) ==
            IF header.threw THEN Threw(0)
            ELSE looped(header,
                        subBlockLoop(SliceTo(arrayBuffer, 4 + header.val.part_size),
                                     header.off, t07blockSize, <<>>))
    IN  headed(parseHeader(arrayBuffer))

(***************************************************************************)
(* RawPCBParser: the outer type parsers.  Each is given the buffer and the *)
(* cursor just after the tag byte and yields the new cursor and the block  *)
(* (Null for the handlers that return null).                               *)
(***************************************************************************)
parseType01(buf, off) ==
    IF ~CanRead(buf, off, 36) THEN Threw(off)
    ELSE [threw |-> FALSE, off |-> off + 36,
          val |-> [type |-> "ARC",
                   layer |-> getUint32(buf, off + 4),
                   x1 |-> Scaled(getUint32(buf, off + 8)),
                   y1 |-> Scaled(getUint32(buf, off + 12)),
                   r |-> Scaled(getInt32(buf, off + 16)),
                   angle_start |-> Scaled(getInt32(buf, off + 20)),
                   angle_end |-> Scaled(getInt32(buf, off + 24)),
                   scale |-> Scaled(getInt32(buf, off + 28)),
                   net_index |-> getInt32(buf, off + 32)]]

parseType02(buf, off) ==
    IF ~CanRead(buf, off, 36) THEN Threw(off)
    ELSE LET read(viaText) ==
                 IF viaText.threw THEN Threw(off + 36)
                 ELSE [threw |-> FALSE, off |-> viaText.off,
                       val |-> [type |-> "VIA",
                                x |-> Scaled(getInt32(buf, off + 4)),
                                y |-> Scaled(getInt32(buf, off + 8)),
                                outer_radius |-> Scaled(getInt32(buf, off + 12)),
                                inner_radius |-> Scaled(getInt32(buf, off + 16)),
                                layer_a_index |-> getUint32(buf, off + 20),
                                layer_b_index |-> getUint32(buf, off + 24),
                                net_index |-> getUint32(buf, off + 28),
                                via_text |-> viaText.val]]
         IN  read(readString(buf, off + 36, getUint32(buf, off + 32)))

\* parseType03 with the cursor assigned instead of advanced.
parseType03Assigned(buf, off) ==
    IF ~CanRead(buf, off, 4) THEN Threw(off)
    ELSE [threw |-> FALSE, off |-> 4 + getUint32(buf, off), val |-> Null]

\* Length-prefixed skip: the cursor is moved without any bounds test.
parseType03(buf, off) ==
    IF ~CanRead(buf, off, 4) THEN Threw(off)
    ELSE [threw |-> FALSE, off |-> off + 4 + getUint32(buf, off), val |-> Null]

\* Handlers of tags 0x04 and 0x08: this.offset += 1; return null.
parseNoOp(buf, off) == [threw |-> FALSE, off |-> off + 1, val |-> Null]

\* parseType05 with y1 and x2 read in the other order.
parseType05Swapped(buf, off) ==
    IF ~CanRead(buf, off, 32) THEN Threw(off)
    ELSE [threw |-> FALSE, off |-> off + 32,
          val |-> [type |-> "SEGMENT",
                   layer |-> getUint32(buf, off + 4),
                   x1 |-> Scaled(getInt32(buf, off + 8)),
                   y1 |-> Scaled(getInt32(buf, off + 16)),
                   x2 |-> Scaled(getInt32(buf, off + 12)),
                   y2 |-> Scaled(getInt32(buf, off + 20)),
                   scale |-> Scaled(getInt32(buf, off + 24)),
                   net_index |-> getUint32(buf, off + 28)]]

parseType05(buf, off) ==
    IF ~CanRead(buf, off, 32) THEN Threw(off)
    ELSE [threw |-> FALSE, off |-> off + 32,
          val |-> [type |-> "SEGMENT",
                   layer |-> getUint32(buf, off + 4),
                   x1 |-> Scaled(getInt32(buf, off + 8)),
                   y1 |-> Scaled(getInt32(buf, off + 12)),
                   x2 |-> Scaled(getInt32(buf, off + 16)),
                   y2 |-> Scaled(getInt32(buf, off + 20)),
                   scale |-> Scaled(getInt32(buf, off + 24)),
                   net_index |-> getUint32(buf, off + 28)]]

parseType06(buf, off) ==
    IF ~(CanRead(buf, off, 28) /\ CanRead(buf, off + 28, 2) /\ CanRead(buf, off + 30, 4))
    THEN Threw(off)
    ELSE LET read(textLength, text) ==
                 IF text.threw THEN Threw(off + 34)
                 ELSE [threw |-> FALSE, off |-> text.off,
                       val |-> [type |-> "TEXT",
                                unknown_1 |-> getUint32(buf, off + 4),
                                pos_x |-> Scaled(getUint32(buf, off + 8)),
                                pos_y |-> Scaled(getUint32(buf, off + 12)),
                                text_size |-> Scaled(getUint32(buf, off + 16)),
                                divider |-> getUint32(buf, off + 20),
                                empty |-> getUint32(buf, off + 24),
                                one |-> getUint16(buf, off + 28),
                                text_length |-> textLength,
                                text |-> text.val]]
             sized(textLength) == read(textLength, readString(buf, off + 34, textLength))
         IN  sized(getUint32(buf, off + 30))

(***************************************************************************)
(* parseType07.  encryptedData is a view of blockSize bytes of the file    *)
(* buffer.  When decryptWithDES throws, decryptedData is that same view,   *)
(* and decryptedData.buffer, which is what PartDataParser.parse is given,  *)
(* is the ArrayBuffer of the whole file.  An exception of the part parser  *)
(* leaves parsed_data null.                                                *)
(***************************************************************************)
PartInput(buf, encryptedData, decrypted) ==
    IF decrypted.threw THEN buf ELSE decrypted.val

\* parseType07 with the cursor advanced by the length of the plaintext.
parseType07Plain(buf, off, cryptoLoaded) ==
    IF ~CanRead(buf, off, 4) THEN Threw(off)
    ELSE IF ~CanRead(buf, off + 4, getUint32(buf, off)) THEN Threw(off + 4)
    ELSE LET block(encryptedData, decrypted) ==
                 [threw |-> FALSE,
                  off |-> off + 4 + (IF decrypted.threw THEN 0 ELSE Len(decrypted.val)),
                  val |-> [type |-> "DATA",
                           block_size |-> getUint32(buf, off),
                           encrypted_data |-> encryptedData,
                           decrypted_data |-> IF decrypted.threw THEN encryptedData
                                              ELSE decrypted.val,
                           parsed_data |-> Null]]
             viewed(encryptedData) ==
                 block(encryptedData, decryptWithDES(encryptedData, cryptoLoaded))
         IN  viewed(Bytes(buf, off + 4, getUint32(buf, off)))

parseType07(buf, off, cryptoLoaded) ==
    IF ~CanRead(buf, off, 4) THEN Threw(off)
    ELSE LET block(blockSize, encryptedData, decrypted, parsed) ==
                 [threw |-> FALSE, off |-> off + 4 + blockSize,
                  val |-> [type |-> "DATA",
                           block_size |-> blockSize,
                           encrypted_data |-> encryptedData,
                           decrypted_data |-> IF decrypted.threw THEN encryptedData
                                              ELSE decrypted.val,
                           parsed_data |-> IF parsed.threw THEN Null ELSE parsed.val]]
             decryptedTo(blockSize, encryptedData, decrypted) ==
                 block(blockSize, encryptedData, decrypted,
                       PartDataParse(PartInput(buf, encryptedData, decrypted), blockSize))
             viewed(blockSize, encryptedData) ==
                 decryptedTo(blockSize, encryptedData,
                             decryptWithDES(encryptedData, cryptoLoaded))
             sized(blockSize) ==
                 IF ~CanRead(buf, off + 4, blockSize) THEN Threw(off + 4)
                 ELSE viewed(blockSize, Bytes(buf, off + 4, blockSize))
         IN  sized(getUint32(buf, off))

\* parseType09 with the cursor advanced by the size alone.
parseType09SizeOnly(buf, off) ==
    IF ~CanRead(buf, off, 4) THEN Threw(off)
    ELSE [threw |-> FALSE, off |-> off + getUint32(buf, off), val |-> Null]

parseType09(buf, off) ==
    IF ~CanRead(buf, off, 4) THEN Threw(off)
    ELSE [threw |-> FALSE, off |-> off + 4 + getUint32(buf, off), val |-> Null]

BlockTags == 1..9

blockHandler(blockType, buf, off, cryptoLoaded) ==
    CASE blockType = 1 -> parseType01(buf, off)
      [] blockType = 2 -> parseType02(buf, off)
      [] blockType = 3 -> parseType03(buf, off)
      [] blockType = 4 -> parseNoOp(buf, off)
      [] blockType = 5 -> parseType05(buf, off)
      [] blockType = 6 -> parseType06(buf, off)
      [] blockType = 7 -> parseType07(buf, off, cryptoLoaded)
      [] blockType = 8 -> parseNoOp(buf, off)
      [] blockType = 9 -> parseType09(buf, off)

\* The padding step of the walk.
PaddingStep(off) == off + 4

(***************************************************************************)
(* One iteration of the while loop of parseMainDataBlocks at cursor off:   *)
(* the padding probe, else the tag byte and its handler.  kind names the   *)
(* path taken; stop tells whether the iteration leaves the loop.           *)
(***************************************************************************)
Iteration(buf, off, cryptoLoaded) ==
    IF ~CanRead(buf, off, 4)
    THEN [threw |-> TRUE, off |-> off, val |-> Null, kind |-> "probe", stop |-> TRUE]
    ELSE IF getUint32(buf, off) = 0
    THEN [threw |-> FALSE, off |-> PaddingStep(off), val |-> Null, kind |-> "padding",
          stop |-> FALSE]
    ELSE LET handled(h) ==
                 [threw |-> h.threw, off |-> h.off, val |-> h.val,
                  kind |-> "block", stop |-> h.threw]
             tagged(blockType) ==
                 IF blockType \notin BlockTags
                 THEN [threw |-> FALSE, off |-> off + 1, val |-> Null, kind |-> "unknown",
                       stop |-> FALSE]
                 ELSE handled(blockHandler(blockType, buf, off + 1, cryptoLoaded))
         IN  tagged(getUint8(buf, off))

\* unshift in place of push.
pushBlockFront(bs, block) == <<block>> \o bs

\* blocks.push(block)
pushBlock(bs, block) == Append(bs, block)

\* The loop condition with the end of the main region included.
LoopConditionInclusive(buf, off, endOffset) == off <= endOffset /\ off < Len(buf)

LoopCondition(buf, off, endOffset) == off < endOffset /\ off < Len(buf)

(***************************************************************************)
(* parse as a pure function of the buffer: the XOR pass, the file header,  *)
(* then the walk to its end.  threw: an exception reaches the caller.      *)
(***************************************************************************)
RECURSIVE walkFrom(_, _, _, _, _)
walkFrom(buf, off, endOffset, cryptoLoaded, acc) ==
    IF ~LoopCondition(buf, off, endOffset) THEN [threw |-> FALSE, val |-> acc]
    ELSE LET step(it) ==
                 IF it.threw THEN [threw |-> TRUE, val |-> acc]
                 ELSE IF it.stop THEN [threw |-> FALSE, val |-> acc]
                 ELSE walkFrom(buf, it.off, endOffset, cryptoLoaded,
                               IF it.val.type # "null" THEN pushBlock(acc, it.val)
                               ELSE acc)
         IN  step(Iteration(buf, off, cryptoLoaded))

parseResult(arrayBuffer, cryptoLoaded) ==
    IF ~CanRead(arrayBuffer, KEY_OFFSET, 1) THEN [threw |-> TRUE, val |-> <<>>]
    ELSE LET b == ApplyXor(arrayBuffer)
         IN  IF ~CanRead(b, MAIN_SIZE_OFFSET, 4) THEN [threw |-> TRUE, val |-> <<>>]
             ELSE walkFrom(b, MAIN_START, MAIN_START + getUint32(b, MAIN_SIZE_OFFSET),
                           cryptoLoaded, <<>>)

(***************************************************************************)
(* Input files.  A file is a 0x44-byte header (key byte at 0x10, main size *)
(* at 0x40) followed by frames, optionally obfuscated with the key byte    *)
(* and closed by the sentinel, with some suffix cut off.                   *)
(***************************************************************************)
MaxBlocks == 2
MaxCut == 6
MaxRuns == 2

LE32(n) == <<n % 256, (n \div 256) % 256, (n \div 65536) % 256, (n \div 16777216) % 256>>

Zeros(n) == [i \in 1..n |-> 0]

Pkcs7Pad(p) ==
    LET n == DES_BLOCK - (Len(p) % DES_BLOCK) IN p \o [i \in 1..n |-> n]

\* The inverse of DESDecryptBlock on one block, and ECB over the padded plaintext.
DESEncryptBlock(p) ==
    [j \in 1..DES_BLOCK |-> p[((j - 1 + DES_BLOCK - KeyShift) % DES_BLOCK) + 1]]

RECURSIVE ECBEncrypt(_)
ECBEncrypt(padded) ==
    IF Len(padded) = 0 THEN <<>>
    ELSE SubSeq(DESEncryptBlock(SubSeq(padded, 1, DES_BLOCK)), 1, DES_BLOCK)
             \o ECBEncrypt(SubSeq(padded, DES_BLOCK + 1, Len(padded)))

Encrypt(p) == ECBEncrypt(Pkcs7Pad(p))

PartHeaderBytes(partSize, name) ==
    LE32(partSize) \o Zeros(4) \o LE32(11) \o LE32(22) \o LE32(90) \o <<1, 0>>
        \o LE32(Len(name)) \o name

LineSub == <<5>> \o LE32(28) \o LE32(29) \o LE32(1) \o LE32(2) \o LE32(3) \o LE32(4)
               \o LE32(10) \o Zeros(4)

\* A part of one line; part_size + 4 is the length of the plaintext.
PlainLine == PartHeaderBytes(26 + 1 + 33 - 4, <<85>>) \o LineSub

\* A part whose second line sub-block is cut short.
PlainOverrun == PartHeaderBytes(100, <<>>) \o LineSub \o <<5>> \o LE32(28) \o LE32(29)

\* A label sub-block and a pin record as the part parser reads them.
LabelSub(label) ==
    <<6>> \o LE32(34 + Len(label)) \o LE32(2) \o LE32(40) \o LE32(50) \o LE32(12)
          \o LE32(1) \o LE32(0) \o <<1, 0>> \o LE32(Len(label)) \o label

PinBytes(innerDiameter, name) ==
    LE32(1) \o LE32(15) \o LE32(25) \o LE32(innerDiameter) \o LE32(0) \o LE32(Len(name))
        \o name \o LE32(6) \o LE32(8) \o <<2>> \o Zeros(23) \o LE32(5) \o Zeros(13)

\* A part with a label of one two-byte character and two pins: a surface pin
\* without a name and a through-hole pin named "P1".
PlainPins ==
    PartHeaderBytes(213, <<85>>) \o LabelSub(<<195, 169>>) \o <<9>> \o LE32(75)
        \o PinBytes(0, <<>>) \o PinBytes(30, <<80, 49>>)

\* A part whose part_size ends after its first line; a second line follows.
PlainTrunc == PartHeaderBytes(26 + 1 + 33 - 4, <<85>>) \o LineSub \o LineSub

\* A part whose header has part_size = 0, followed by a line.
PlainZero == PartHeaderBytes(0, <<>>) \o LineSub

\* A part of a line, an unknown sub-type identifier and another line.
PlainUnkSub == PartHeaderBytes(26 + 1 + 33 + 1 + 33 - 4, <<85>>) \o LineSub \o <<7>> \o LineSub

\* A part of one pin array of one pin; the plaintext ends inside the 13 bytes
\* skipped at the end of the pin.
PlainPinCut ==
    PartHeaderBytes(26 + 5 + 73 - 13 - 4, <<>>) \o <<9>> \o LE32(60)
        \o SubSeq(PinBytes(30, <<>>), 1, 73 - 13)

ArcSub ==
    <<1>> \o LE32(36) \o LE32(29) \o LE32(7) \o LE32(8) \o LE32(9) \o LE32(0)
          \o LE32(1800) \o LE32(10) \o LE32(0)

\* A part with a sub-block of every kind: an arc, a line, a label and a pin
\* array of one named pin.
PlainAll ==
    PartHeaderBytes(28 + 37 + 33 + 36 + 5 + 76 - 4, <<85, 49>>) \o ArcSub \o LineSub
        \o LabelSub(<<76>>) \o <<9>> \o LE32(76) \o PinBytes(0, <<80, 49, 50>>)

DataFrame(ciphertext) == <<7>> \o LE32(Len(ciphertext)) \o ciphertext

TemplateNames ==
    {"seg", "arc", "via", "text", "skip3", "skip9", "noop4", "noop8", "pad", "unk",
     "dataLine", "dataBad7", "dataOverrun", "dataEmpty", "dataPins"}

\* The frames that are well-formed blocks of the format.
WellFormedNames ==
    {"seg", "arc", "via", "text", "skip3", "skip9", "pad", "dataLine", "dataPins"}

SegFrame ==
    <<5>> \o LE32(28) \o LE32(1) \o LE32(100) \o LE32(200) \o LE32(300) \o LE32(400)
          \o LE32(20000) \o LE32(7)

ArcFrame ==
    <<1>> \o LE32(32) \o LE32(2) \o LE32(10) \o LE32(20) \o LE32(5) \o LE32(0)
          \o LE32(900000) \o LE32(100) \o LE32(3)

ViaFrame ==
    <<2>> \o LE32(34) \o LE32(50) \o LE32(60) \o LE32(8) \o LE32(4) \o LE32(1)
          \o LE32(16) \o LE32(9) \o LE32(2) \o <<65, 49>>

TextFrame ==
    <<6>> \o LE32(35) \o LE32(0) \o LE32(70) \o LE32(80) \o LE32(12) \o LE32(0)
          \o LE32(0) \o <<1, 0>> \o LE32(3) \o <<82, 49, 48>>

DataLineFrame == DataFrame(Encrypt(PlainLine))

\* Seven bytes of ciphertext whose unpadding makes sigBytes negative.
DataBad7Frame == DataFrame(<<1, 2, 3, 4, 9, 5, 6>>)

DataOverrunFrame == DataFrame(Encrypt(PlainOverrun))

DataEmptyFrame == DataFrame(Encrypt(<<>>))

DataPinsFrame == DataFrame(Encrypt(PlainPins))

DataTruncFrame == DataFrame(Encrypt(PlainTrunc))

DataZeroFrame == DataFrame(Encrypt(PlainZero))

DataAllFrame == DataFrame(Encrypt(PlainAll))

DataPinCutFrame == DataFrame(Encrypt(PlainPinCut))

DataUnkSubFrame == DataFrame(Encrypt(PlainUnkSub))

\* A skip block whose declared size reaches far past the end of the file.
SkipBigFrame == <<3>> \o LE32(1000)

FrameBytes(name) ==
    CASE name = "seg" -> SegFrame
      [] name = "arc" -> ArcFrame
      [] name = "via" -> ViaFrame
      [] name = "text" -> TextFrame
      [] name = "dataTrunc" -> DataTruncFrame
      [] name = "dataZero" -> DataZeroFrame
      [] name = "dataAll" -> DataAllFrame
      [] name = "dataPinCut" -> DataPinCutFrame
      [] name = "dataUnkSub" -> DataUnkSubFrame
      [] name = "skip3" -> <<3>> \o LE32(3) \o <<17, 18, 19>>
      [] name = "skip9" -> <<9>> \o LE32(0)
      [] name = "noop4" -> <<4>>
      [] name = "noop8" -> <<8>>
      [] name = "pad" -> Zeros(4)
      [] name = "unk" -> <<10>>
      [] name = "dataLine" -> DataLineFrame
      [] name = "dataBad7" -> DataBad7Frame
      [] name = "dataOverrun" -> DataOverrunFrame
      [] name = "dataEmpty" -> DataEmptyFrame
      [] name = "dataPins" -> DataPinsFrame
      [] name = "skipBig" -> SkipBigFrame

RECURSIVE Body(_)
Body(frames) ==
    IF frames = <<>> THEN <<>> ELSE FrameBytes(Head(frames)) \o Body(Tail(frames))

\* Offset of the tag byte of frame i of a file.
FrameOffset(frames, i) == MAIN_START + Len(Body(SubSeq(frames, 1, i - 1)))

\* The header "part" holds, from offset 0, bytes that read as a part header
\* and one line sub-block; bytes 0x0F and 0x11 are non-zero.  The header
\* "early" holds the sentinel at offset 2 and a non-zero byte 0x10.
HeaderBytes(hdr, mainSize) ==
    IF hdr = "early"
    THEN <<0, 0>> \o Sentinel \o Zeros(3) \o <<90>> \o Zeros(47) \o LE32(mainSize)
    ELSE IF hdr = "part"
    THEN LE32(60) \o Zeros(11) \o <<1>> \o <<0, 1, 0, 0>> \o <<1, 0>> \o LE32(0)
             \o <<5>> \o LE32(28) \o LE32(29) \o LE32(1) \o LE32(2) \o LE32(3)
             \o LE32(4) \o LE32(10) \o Zeros(9) \o LE32(mainSize)
    ELSE Zeros(MAIN_SIZE_OFFSET) \o LE32(mainSize)

\* A file as the writer stores it: every byte XORed with the key.
Obfuscate(plain, key) == [i \in 1..Len(plain) |-> BitXor(plain[i], key)]

FullFile(in) ==
    LET body == Body(in.frames)
        plain == HeaderBytes(in.hdr, Len(body) - in.shrink) \o body
        stored == IF in.key # 0 THEN Obfuscate(plain, in.key) ELSE plain
    IN  stored \o (IF in.sentinel THEN Sentinel \o <<1, 2>> ELSE <<>>)

InputBuffer(in) == LET file == FullFile(in) IN SubSeq(file, 1, Len(file) - in.cut)

Files == UNION {[1..n -> TemplateNames] : n \in 0..MaxBlocks}

WellFormedFile(in) ==
    /\ \A i \in 1..Len(in.frames) : in.frames[i] \in WellFormedNames
    /\ in.shrink = 0
    /\ in.crypto

Scenario(frames, cut, key, sentinel, hdr, crypto, shrink) ==
    [frames |-> frames, cut |-> cut, key |-> key, sentinel |-> sentinel,
     hdr |-> hdr, crypto |-> crypto, shrink |-> shrink]

\* Files of at most two frames: the ones that are also cut, obfuscated, parsed
\* without CryptoJS, or given a short main size.
Varied ==
    {<<>>} \cup {<<b>> : b \in TemplateNames}
           \cup {<<a, b>> : a \in TemplateNames, b \in TemplateNames}

\* PROGRESS_EVERY one-byte frames, or one fewer and then a last frame.
LongFiles ==
    {[n \in 1..PROGRESS_EVERY |-> IF n < PROGRESS_EVERY THEN "unk" ELSE last] :
        last \in {"unk", "seg", "skip3", "skipBig"}}
    \cup {[n \in 1..(PROGRESS_EVERY + 1) |-> IF n <= PROGRESS_EVERY THEN "unk" ELSE "seg"]}

\* Files of DATA blocks that exercise the part parser.
PartFiles == {<<"dataTrunc", "dataZero">>, <<"dataUnkSub">>, <<"dataPinCut">>,
              <<"dataAll">>}

Inputs ==
    \* clear, complete files
    {Scenario(f, 0, 0, FALSE, "zero", TRUE, 0) : f \in Files}
    \* a suffix cut off (any suffix of a file of header only)
    \cup {Scenario(f, c, 0, FALSE, "zero", TRUE, 0) : f \in Varied, c \in 1..MaxCut}
    \cup {Scenario(<<>>, c, k, FALSE, "zero", TRUE, 0) :
            c \in 0..MAIN_START, k \in {0, 90}}
    \* obfuscated files, with and without the sentinel, the sentinel cut
    \cup {Scenario(f, 0, 90, s, "zero", TRUE, 0) : f \in Varied, s \in BOOLEAN}
    \cup {Scenario(f, c, 90, TRUE, "zero", TRUE, 0) : f \in Varied, c \in 1..MaxCut}
    \* CryptoJS not loaded; a header that reads as part data
    \cup {Scenario(f, 0, 0, FALSE, h, c, 0) :
            f \in Varied, h \in {"zero", "part"}, c \in BOOLEAN}
    \* the sentinel before byte 0x10
    \cup {Scenario(f, 0, 0, FALSE, "early", c, 0) : f \in Varied, c \in BOOLEAN}
    \* the sentinel twice
    \cup {Scenario(f, 0, 0, TRUE, "early", TRUE, 0) : f \in {<<>>, <<"seg">>}}
    \* a main size one byte short of the frames
    \cup {Scenario(f, 0, 0, FALSE, "zero", TRUE, 1) : f \in Varied \ {<<>>}}
    \* parts
    \cup {Scenario(f, 0, 0, FALSE, "zero", TRUE, 0) : f \in PartFiles}
    \* files long enough for the periodic progress report
    \cup {Scenario(f, 0, 0, FALSE, "zero", TRUE, 0) : f \in LongFiles}
    \cup {Scenario(f, 0, 90, TRUE, "zero", TRUE, 0) :
            f \in {g \in LongFiles : Len(g) > PROGRESS_EVERY}}

(***************************************************************************)
(* ProgressModal (render_layers.js).  percent is in tenths of a percent, so *)
(* that Math.round has something to round.  The display is what the page    *)
(* shows: the width of the bar, the text of the percent element (without    *)
(* the % sign) and the text of the stage element.                           *)
(***************************************************************************)
\* 'Initializing' followed by the ellipsis character, written here with dots.
RESET_STAGE == "Initializing..."

\* The arguments that the callers give to updateProgress: tenths of a percent
\* (the parser's callback can pass more than 100) and stage texts ('' when the
\* argument is left out).
Percents == {-50, 0, 100, 200, 305, 550, 800, 950, 1000, 6570}

Stages ==
    {"", "Loading file...", "Initializing renderer...", "Parsing JSON...",
     "Rendering PCB...", "Setting up SVG structure...", "Optimizing paths...",
     "Building via structures...", "Instantiating UI!"}

\* The constructor; the elements start with the content of a reset modal.
ModalConstructed ==
    [isVisible |-> FALSE, overlayActive |-> FALSE, bodyOverflow |-> "",
     barWidth |-> 0, pctText |-> 0, stageText |-> RESET_STAGE]

modalShow(m) ==
    IF m.isVisible THEN m
    ELSE [m EXCEPT !.isVisible = TRUE, !.overlayActive = TRUE,
                   !.bodyOverflow = "hidden"]

modalUpdateProgress(m, percent, stage) ==
    IF ~m.isVisible THEN m
    ELSE LET shown(clamped) ==
                 [m EXCEPT !.barWidth = clamped,
                           !.pctText = (2 * clamped + 10) \div (2 * 10),
                           !.stageText = IF stage # "" THEN stage ELSE @]
             max(a, b) == IF a > b THEN a ELSE b
             min(a, b) == IF a < b THEN a ELSE b
         IN  shown(max(0, min(1000, percent)))

modalHide(m) ==
    IF ~m.isVisible THEN m
    ELSE modalUpdateProgress([m EXCEPT !.isVisible = FALSE, !.overlayActive = FALSE,
                                       !.bodyOverflow = ""],
                             0, RESET_STAGE)

(***************************************************************************)
(* The layer controls that renderSegments builds (render_layers.js).  A    *)
(* board is given by the layers of its segments and arcs and by its vias,   *)
(* each via a pair of layers.                                               *)
(***************************************************************************)
SILKSCREEN_LAYER == 17
OUTLINE_LAYER == 28
PART_OUTLINES_LAYER == 29
PINS_LAYER == 32
FIRST_LAYER == 1
LAST_COPPER_LAYER == 16

labeledLayers == {SILKSCREEN_LAYER, OUTLINE_LAYER, PART_OUTLINES_LAYER, PINS_LAYER}

layersOf(board) ==
    board.traceLayers \cup {v[1] : v \in board.vias} \cup {v[2] : v \in board.vias}
        \cup {PART_OUTLINES_LAYER}

populatedLayers(board) ==
    {l \in board.traceLayers :
        l # OUTLINE_LAYER /\ l # SILKSCREEN_LAYER /\ l <= LAST_COPPER_LAYER}

defaultVisible(board) ==
    LET populated == populatedLayers(board)
    IN  {IF populated = {} THEN FIRST_LAYER
         ELSE CHOOSE l \in populated : \A k \in populated : l <= k,
         IF populated = {} THEN LAST_COPPER_LAYER
         ELSE CHOOSE l \in populated : \A k \in populated : l >= k,
         OUTLINE_LAYER, SILKSCREEN_LAYER, PART_OUTLINES_LAYER, PINS_LAYER}

\* The layers that get a button: the loop skips a layer of at most 16 that has
\* no entry in displayMap, the outline and the silkscreen excepted.
buttonLayers(board) ==
    {l \in layersOf(board) :
        ~(/\ l # OUTLINE_LAYER /\ l # SILKSCREEN_LAYER
          /\ l \notin populatedLayers(board) /\ l <= LAST_COPPER_LAYER)}

\* updateViaVisibility: the display attribute of every via (TRUE for 'inline').
updateViaVisibility(vias, activeLayersSet) ==
    [v \in vias |->
        LET startL == IF v[1] < v[2] THEN v[1] ELSE v[2]
            endL == IF v[1] < v[2] THEN v[2] ELSE v[1]
        IN  startL \in activeLayersSet \/ endL \in activeLayersSet]

\* The controls as renderSegments leaves them.
renderControls(board) ==
    [board |-> board,
     activeLayers |-> defaultVisible(board),
     pinsBtn |-> TRUE,
     layerButtons |-> [l \in buttonLayers(board) |-> l \in defaultVisible(board)],
     viaDisplay |-> updateViaVisibility(board.vias, defaultVisible(board))]

\* The click on a layer button.
clickLayer(p, layer) ==
    LET toggled == IF layer \in p.activeLayers THEN p.activeLayers \ {layer}
                   ELSE p.activeLayers \cup {layer}
    IN  [p EXCEPT !.activeLayers = toggled,
                  !.layerButtons[layer] = layer \notin p.activeLayers,
                  !.viaDisplay = updateViaVisibility(p.board.vias, toggled)]

\* The click on 'Pin Rendering': toggleActive and updateDOM, nothing else.
clickPins(p) ==
    [p EXCEPT !.activeLayers = IF PINS_LAYER \in @ THEN @ \ {PINS_LAYER}
                               ELSE @ \cup {PINS_LAYER},
              !.pinsBtn = PINS_LAYER \notin p.activeLayers]

\* The click on 'Show All'.
clickShowAll(p) ==
    LET all == p.activeLayers \cup labeledLayers \cup layersOf(p.board)
    IN  [p EXCEPT !.activeLayers = all,
                  !.layerButtons = [l \in DOMAIN p.layerButtons |-> TRUE],
                  !.viaDisplay = updateViaVisibility(p.board.vias, all)]

\* The boards the controls are built for.
TraceLayers == {1, 2, 16, SILKSCREEN_LAYER}

Vias == {<<1, 2>>, <<16, 3>>}

Boards == [traceLayers : SUBSET TraceLayers, vias : SUBSET Vias]

\* No board rendered.
NoControls == renderControls([traceLayers |-> {}, vias |-> {}])

(***************************************************************************)
(* optimizePaths (render_layers.js).  An item of data.main_data_block is   *)
(* [key, elem]; elem.width is <<>> when the element has no width.  A point *)
(* is <<x, y>> (the code joins the two numbers with a comma).  Angles are   *)
(* in 1/10000 degree; cosine and sine are tabulated for the multiples of a *)
(* right angle, where Math.round gives the exact result.                   *)
(***************************************************************************)
ANGLE_UNIT == 10000

cosDeg(d) == CASE d = 0 -> 1 [] d = 90 -> 0 [] d = 180 -> -1 [] d = 270 -> 0

sinDeg(d) == CASE d = 0 -> 0 [] d = 90 -> 1 [] d = 180 -> 0 [] d = 270 -> -1

computeArcEndpoints(arc) ==
    [p1 |-> <<arc.x1 + arc.r * cosDeg(arc.angle_start \div ANGLE_UNIT),
              arc.y1 + arc.r * sinDeg(arc.angle_start \div ANGLE_UNIT)>>,
     p2 |-> <<arc.x1 + arc.r * cosDeg(arc.angle_end \div ANGLE_UNIT),
              arc.y1 + arc.r * sinDeg(arc.angle_end \div ANGLE_UNIT)>>]

\* data.width ?? data.scale
widthOf(elem) == IF elem.width # <<>> THEN elem.width[1] ELSE elem.scale

\* The element pushed for the item of index index (counted from 0).
traceElement(item, index) ==
    LET made(endpoints) ==
            [id |-> index, type |-> IF item.key = "SEGMENT" THEN "segment" ELSE "arc",
             data |-> item.elem, p1 |-> endpoints.p1, p2 |-> endpoints.p2]
    IN  made(IF item.key = "SEGMENT"
             THEN [p1 |-> <<item.elem.x1, item.elem.y1>>,
                   p2 |-> <<item.elem.x2, item.elem.y2>>]
             ELSE computeArcEndpoints(item.elem))

isTrace(item) == item.key = "SEGMENT" \/ item.key = "ARC"

\* elementsByLayer.get(layer): the elements of the layer in the order of data.
RECURSIVE elementsOfLayer(_, _, _)
elementsOfLayer(data, layer, n) ==
    IF n = 0 THEN <<>>
    ELSE IF isTrace(data[n]) /\ data[n].elem.layer = layer
    THEN Append(elementsOfLayer(data, layer, n - 1), traceElement(data[n], n - 1))
    ELSE elementsOfLayer(data, layer, n - 1)

\* adj.get(point): the connections of the point in the order they were pushed.
adjacent(elements, point) ==
    LET conn(c) ==
            IF c % 2 = 1
            THEN [at |-> elements[(c + 1) \div 2].p1,
                  neighbor |-> elements[(c + 1) \div 2].p2,
                  id |-> elements[(c + 1) \div 2].id, forward |-> TRUE]
            ELSE [at |-> elements[c \div 2].p2, neighbor |-> elements[c \div 2].p1,
                  id |-> elements[c \div 2].id, forward |-> FALSE]
        here(c) == c.at = point
    IN  SelectSeq([c \in 1..(2 * Len(elements)) |-> conn(c)], here)

\* elementsById.get(id)
elementById(elements, id) ==
    elements[CHOOSE k \in 1..Len(elements) : elements[k].id = id]

\* The direction of a link kept as the connection gives it, whichever way the
\* chain is being extended.
linkForwardAsFound(direction, forward) == forward

\* direction === 1 ? next.forward : !next.forward
linkForward(direction, forward) == IF direction = 1 THEN forward ELSE ~forward

\* The while (true) loop that extends a chain from the point current.
RECURSIVE extendChain(_, _, _, _, _, _)
extendChain(elements, used, current, current_width, direction, extensions) ==
    LET free(conn) ==
            /\ conn.id \notin used
            /\ widthOf(elementById(elements, conn.id).data) = current_width
        go(found) ==
            IF found = <<>> THEN [used |-> used, extensions |-> extensions]
            ELSE extendChain(elements, used \cup {found[1].id}, found[1].neighbor,
                             current_width, direction,
                             Append(extensions,
                                    [id |-> found[1].id,
                                     forward |-> linkForward(direction,
                                                             found[1].forward)]))
    IN  go(SelectSeq(adjacent(elements, current), free))

Reverse(seq) == [i \in 1..Len(seq) |-> seq[Len(seq) + 1 - i]]

\* The chain started at startElem: extended from p2, then from p1, and each
\* link given the fields of its element.
chainOf(elements, startElem, used) ==
    LET width == widthOf(startElem.data)
        spread(link) ==
            [id |-> link.id, forward |-> link.forward,
             type |-> elementById(elements, link.id).type,
             data |-> elementById(elements, link.id).data,
             p1 |-> elementById(elements, link.id).p1,
             p2 |-> elementById(elements, link.id).p2]
        joined(ahead, back) ==
            [used |-> back.used,
             chain |-> [k \in 1..(Len(back.extensions) + 1 + Len(ahead.extensions)) |->
                           spread((Reverse(back.extensions)
                                     \o <<[id |-> startElem.id, forward |-> TRUE]>>
                                     \o ahead.extensions)[k])]]
        backFrom(ahead) ==
            joined(ahead, extendChain(elements, ahead.used, startElem.p1, width, -1, <<>>))
    IN  backFrom(extendChain(elements, used \cup {startElem.id}, startElem.p2, width,
                             1, <<>>))

\* elements.forEach(startElem => ...) from the k-th element on.
RECURSIVE chainsFrom(_, _, _, _)
chainsFrom(elements, k, used, paths) ==
    IF k > Len(elements) THEN paths
    ELSE IF elements[k].id \in used THEN chainsFrom(elements, k + 1, used, paths)
    ELSE LET next(built) ==
                 chainsFrom(elements, k + 1, built.used, Append(paths, built.chain))
         IN  next(chainOf(elements, elements[k], used))

optimizePaths(data) ==
    [layer \in {data[i].elem.layer : i \in {j \in 1..Len(data) : isTrace(data[j])}} |->
        chainsFrom(elementsOfLayer(data, layer, Len(data)), 1, {}, <<>>)]

\* The items optimizePaths is tried on: segments between three points on two
\* layers and with two widths, a loop, a quarter arc and a via.
Segment(layer, p, q, width) ==
    [key |-> "SEGMENT",
     elem |-> [layer |-> layer, x1 |-> p[1], y1 |-> p[2], x2 |-> q[1], y2 |-> q[2],
               r |-> 0, angle_start |-> 0, angle_end |-> 0, width |-> width,
               scale |-> 5]]

TraceItems ==
    {Segment(1, <<0, 0>>, <<10, 0>>, <<>>),
     Segment(1, <<10, 0>>, <<10, 10>>, <<>>),
     Segment(1, <<10, 10>>, <<10, 0>>, <<>>),
     Segment(1, <<0, 0>>, <<10, 0>>, <<7>>),
     Segment(2, <<10, 0>>, <<10, 10>>, <<>>),
     Segment(1, <<10, 0>>, <<10, 0>>, <<>>),
     [key |-> "ARC",
      elem |-> [layer |-> 1, x1 |-> 10, y1 |-> 0, x2 |-> 0, y2 |-> 0, r |-> 10,
                angle_start |-> 90 * ANGLE_UNIT, angle_end |-> 180 * ANGLE_UNIT,
                width |-> <<>>, scale |-> 5]],
     [key |-> "VIA",
      elem |-> [layer |-> 1, x1 |-> 0, y1 |-> 0, x2 |-> 0, y2 |-> 0, r |-> 0,
                angle_start |-> 0, angle_end |-> 0, width |-> <<>>, scale |-> 5]]}

MaxTraces == 3

TraceData == UNION {[1..n -> TraceItems] : n \in 0..MaxTraces}

\* optimizePaths not called.
NoPaths == [data |-> <<>>, done |-> FALSE, pathsByLayer |-> <<>>]

(***************************************************************************)
(* The state of one parser instance parsing one buffer object, and of the  *)
(* page.                                                                   *)
(***************************************************************************)
VARIABLES
    traces,              \* the argument and the result of optimizePaths
    panel,               \* the layer controls: activeLayers, buttons, vias
    modal,               \* window.progressModal
    input,               \* the file the buffer was made from (not program state)
    buffer,              \* the ArrayBuffer given to parse, XORed in place
    original,            \* the buffer as it was when the current parse began
    pc,                  \* "parse", "header", "walk", "done", "threw"
    offset,              \* this.offset
    mainDataBlocksSize,  \* this.mainDataBlocksSize
    blocks,              \* the local blocks of parseMainDataBlocks
    blockOffsets,        \* offset of the tag byte of each element of blocks
    unknownAt,           \* offset of the first unknown tag byte of this walk, or -1
    run,                 \* number of the current call of parse
    firstResult,         \* how the first call ended
    blockCount,          \* the local blockCount of parseMainDataBlocks
    progress             \* what the progress callback was given, this call of parse

vars == <<traces, panel, modal, input, buffer, original, pc, offset, mainDataBlocksSize, blocks,
          blockOffsets, unknownAt, run, firstResult, blockCount, progress>>

\* Math.round of the non-negative quotient num / den.
MathRound(num, den) == (2 * num + den) \div (2 * den)

\* reportProgress(current, total, stage) with current = num / den: the value
\* given to the callback is appended to the log.  n is the number the stage
\* text carries, 0 when it carries none.
reportProgress(log, num, den, total, stage, n) ==
    Append(log, [percent |-> MathRound(100 * num, den * total), stage |-> stage, n |-> n])

\* The periodic report made after the first block of every PROGRESS_EVERY.
reportDueFirst(count) == count % PROGRESS_EVERY = 1

\* ++blockCount % 100 === 0, count being the incremented blockCount.
reportDue(count) == count % PROGRESS_EVERY = 0

endOffset == MAIN_START + mainDataBlocksSize

NoResult == [outcome |-> "none", main_data_block |-> <<>>]

Init ==
    /\ traces = NoPaths
    /\ panel = NoControls
    /\ modal = ModalConstructed
    /\ input \in Inputs
    /\ buffer = InputBuffer(input)
    /\ original = buffer
    /\ pc = "parse"
    /\ offset = 0
    /\ mainDataBlocksSize = 0
    /\ blocks = <<>>
    /\ blockOffsets = <<>>
    /\ unknownAt = -1
    /\ run = 1
    /\ firstResult = NoResult
    /\ blockCount = 0
    /\ progress = <<>>

\* parse, up to parseFileHeader: getUint8(0x10) and the XOR pass.
XorPass ==
    /\ pc = "parse"
    /\ IF ~CanRead(buffer, KEY_OFFSET, 1)
       THEN /\ pc' = "threw"
            /\ progress' = reportProgress(progress, 0, 1, 10, "Initializing parser", 0)
            /\ UNCHANGED buffer
       ELSE /\ pc' = "header"
            /\ buffer' = ApplyXor(buffer)
            /\ progress' =
                 IF getUint8(buffer, KEY_OFFSET) # 0
                 THEN reportProgress(
                          reportProgress(progress, 0, 1, 10, "Initializing parser", 0),
                          1, 2, 10, "Applying XOR decryption", 0)
                 ELSE reportProgress(progress, 0, 1, 10, "Initializing parser", 0)
    /\ UNCHANGED <<traces, panel, modal, input, original, offset, mainDataBlocksSize, blocks, blockOffsets,
                   unknownAt, run, firstResult, blockCount>>

\* parseFileHeader, and the entry of parseMainDataBlocks.
ParseFileHeader ==
    /\ pc = "header"
    /\ IF ~CanRead(buffer, MAIN_SIZE_OFFSET, 4)
       THEN pc' = "threw" /\ UNCHANGED <<mainDataBlocksSize, offset, progress>>
       ELSE /\ pc' = "walk"
            /\ mainDataBlocksSize' = getUint32(buffer, MAIN_SIZE_OFFSET)
            /\ offset' = MAIN_START
            /\ progress' =
                 reportProgress(
                     reportProgress(progress, 1, 1, 10, "Reading file header", 0),
                     2, 1, 10, "Parsing data blocks", 0)
    /\ blocks' = <<>>
    /\ blockOffsets' = <<>>
    /\ unknownAt' = -1
    /\ blockCount' = 0
    /\ UNCHANGED <<traces, panel, modal, input, buffer, original, run, firstResult>>

\* One iteration of the loop of parseMainDataBlocks.
WalkIteration ==
    /\ pc = "walk"
    /\ LoopCondition(buffer, offset, endOffset)
    /\ \E it \in {Iteration(buffer, offset, input.crypto)} :
           /\ pc' = IF it.threw THEN "threw" ELSE IF it.stop THEN "done" ELSE "walk"
           /\ offset' = it.off
           /\ IF ~it.threw /\ it.val.type # "null"
              THEN /\ blocks' = pushBlock(blocks, it.val)
                   /\ blockOffsets' = Append(blockOffsets, offset)
              ELSE UNCHANGED <<blocks, blockOffsets>>
           /\ unknownAt' = IF it.kind = "unknown" /\ unknownAt = -1 THEN offset
                            ELSE unknownAt
           /\ blockCount' = IF it.threw \/ it.kind = "padding" THEN blockCount
                             ELSE blockCount + 1
           /\ progress' =
                IF \/ it.threw \/ it.kind = "padding"
                   \/ ~reportDue(blockCount + 1)
                THEN progress
                ELSE reportProgress(progress,
                                    2 * mainDataBlocksSize + 6 * (it.off - MAIN_START),
                                    mainDataBlocksSize, 10, "Parsed blocks",
                                    blockCount + 1)
    /\ UNCHANGED <<traces, panel, modal, input, buffer, original, mainDataBlocksSize, run, firstResult>>

\* The loop condition fails: parseMainDataBlocks and parse return.
WalkReturn ==
    /\ pc = "walk"
    /\ ~LoopCondition(buffer, offset, endOffset)
    /\ pc' = "done"
    /\ progress' =
         reportProgress(
             reportProgress(progress, 8, 1, 10, "Completed parsing blocks", Len(blocks)),
             10, 1, 20, "Parsing complete", 0)
    /\ UNCHANGED <<traces, panel, modal, input, buffer, original, offset, mainDataBlocksSize, blocks,
                   blockOffsets, unknownAt, run, firstResult, blockCount>>

\* The caller parses the same buffer object again with the same instance.
ParseAgain ==
    /\ pc \in {"done", "threw"}
    /\ run < MaxRuns
    /\ firstResult' = IF run = 1
                      THEN [outcome |-> pc,
                            main_data_block |-> IF pc = "done" THEN blocks ELSE <<>>]
                      ELSE firstResult
    /\ run' = run + 1
    /\ pc' = "parse"
    /\ offset' = 0
    /\ original' = buffer
    /\ blocks' = <<>>
    /\ blockOffsets' = <<>>
    /\ unknownAt' = -1
    /\ blockCount' = 0
    /\ progress' = <<>>
    /\ UNCHANGED <<traces, panel, modal, input, buffer, mainDataBlocksSize>>

Next == XorPass \/ ParseFileHeader \/ WalkIteration \/ WalkReturn \/ ParseAgain

Spec == Init /\ [][Next]_vars

(***************************************************************************)
(* The progress modal on its own: any sequence of show, updateProgress and *)
(* hide.  The parser is left as constructed.                               *)
(***************************************************************************)
parserVars == <<input, buffer, original, pc, offset, mainDataBlocksSize, blocks,
                blockOffsets, unknownAt, run, firstResult, blockCount, progress>>

ParserIdle ==
    /\ input = Scenario(<<>>, 0, 0, FALSE, "zero", TRUE, 0)
    /\ buffer = <<>>
    /\ original = <<>>
    /\ pc = "idle"
    /\ offset = 0
    /\ mainDataBlocksSize = 0
    /\ blocks = <<>>
    /\ blockOffsets = <<>>
    /\ unknownAt = -1
    /\ run = 1
    /\ firstResult = NoResult
    /\ blockCount = 0
    /\ progress = <<>>

ModalInit ==
    ParserIdle /\ modal = ModalConstructed /\ panel = NoControls /\ traces = NoPaths

Show == modal' = modalShow(modal) /\ UNCHANGED <<traces, panel, parserVars>>

UpdateProgress ==
    /\ \E percent \in Percents, stage \in Stages :
          modal' = modalUpdateProgress(modal, percent, stage)
    /\ UNCHANGED <<traces, panel, parserVars>>

Hide == modal' = modalHide(modal) /\ UNCHANGED <<traces, panel, parserVars>>

ModalNext == Show \/ UpdateProgress \/ Hide

ModalSpec == ModalInit /\ [][ModalNext]_vars

(***************************************************************************)
(* The layer controls on their own: a board is rendered, then the buttons  *)
(* are clicked in any order.                                               *)
(***************************************************************************)
PanelInit ==
    /\ ParserIdle
    /\ modal = ModalConstructed
    /\ traces = NoPaths
    /\ \E board \in Boards : panel = renderControls(board)

ClickLayer ==
    /\ \E layer \in DOMAIN panel.layerButtons : panel' = clickLayer(panel, layer)
    /\ UNCHANGED <<traces, modal, parserVars>>

ClickPins == panel' = clickPins(panel) /\ UNCHANGED <<traces, modal, parserVars>>

ClickShowAll == panel' = clickShowAll(panel) /\ UNCHANGED <<traces, modal, parserVars>>

PanelNext == ClickLayer \/ ClickPins \/ ClickShowAll

PanelSpec == PanelInit /\ [][PanelNext]_vars

(***************************************************************************)
(* optimizePaths on its own: called once on some data.                     *)
(***************************************************************************)
PathInit ==
    /\ ParserIdle
    /\ modal = ModalConstructed
    /\ panel = NoControls
    /\ \E data \in TraceData :
          traces = [data |-> data, done |-> FALSE, pathsByLayer |-> <<>>]

OptimizePaths ==
    /\ ~traces.done
    /\ traces' = [traces EXCEPT !.done = TRUE,
                                !.pathsByLayer = optimizePaths(traces.data)]
    /\ UNCHANGED <<panel, modal, parserVars>>

PathNext == OptimizePaths

PathSpec == PathInit /\ [][PathNext]_vars

(***************************************************************************)
(* Properties.                                                             *)
(***************************************************************************)
Returned == pc = "done"
Ended == pc \in {"done", "threw"}

\* The walker is about to run the body of its loop at the cursor: a step from
\* such a state is one iteration.
IterationStep == pc = "walk" /\ LoopCondition(buffer, offset, endOffset)

\* The iteration about to run reads a tag byte (the padding probe can be made
\* and is not zero), and the tag is `tag`.
DispatchStep(tag) ==
    /\ IterationStep
    /\ CanRead(buffer, offset, 4)
    /\ getUint32(buffer, offset) # 0
    /\ getUint8(buffer, offset) = tag

\* C1: partial decoding.  Whenever the first parse of a well-formed file with a
\* suffix cut off (the 0x44-byte header left whole) has ended, it has returned a
\* board, and the board's entities are a prefix of the entities of the whole file.
C1_PartialDecoding ==
    (/\ Ended /\ run = 1
     /\ WellFormedFile(input)
     /\ Len(buffer) >= MAIN_START)
        => LET full == parseResult(FullFile(input), input.crypto)
           IN  /\ Returned
               /\ ~full.threw
               /\ Len(blocks) <= Len(full.val)
               /\ SubSeq(full.val, 1, Len(blocks)) = blocks

\* C2: for a buffer shorter than 0x44 bytes, the empty buffer included, parse
\* returns an empty board: no exception reaches the caller.
C2_ShortBufferReturns ==
    (Len(buffer) < MAIN_START /\ pc # "parse" /\ pc # "header")
        => Returned /\ blocks = <<>>

\* C3: the outer walk terminates.  Every iteration of the loop of
\* parseMainDataBlocks that stays in the loop is entered with the cursor below
\* both the end of the main region and the buffer length and leaves the cursor
\* strictly greater than it found it, so the number of iterations is bounded.
C3_WalkTerminates ==
    [][(pc = "walk" /\ pc' = "walk")
          => /\ offset' > offset
             /\ offset < endOffset /\ offset < Len(buffer)
             /\ endOffset' = endOffset /\ Len(buffer') = Len(buffer)]_vars

\* C3 witness: a walk of several iterations has returned because the cursor
\* reached the end of the main region.
C3_Witness ==
    /\ Returned /\ run = 1
    /\ Len(input.frames) >= 2
    /\ offset >= endOffset
    /\ offset > MAIN_START + 4

\* C4: entities are in file order.  During the walk the block list only grows
\* by one element appended at its end, and at every moment element i of the
\* list is the block decoded at the i-th recorded tag offset, those offsets
\* strictly increasing along the list.
C4_FileOrder ==
    /\ [](/\ Len(blockOffsets) = Len(blocks)
          /\ \A i \in 1..Len(blocks) :
               /\ blocks[i] = Iteration(buffer, blockOffsets[i], input.crypto).val
               /\ \A j \in 1..Len(blocks) : i < j => blockOffsets[i] < blockOffsets[j])
    /\ [][pc = "walk" => /\ Len(blocks) <= Len(blocks')
                         /\ Len(blocks') <= Len(blocks) + 1
                         /\ SubSeq(blocks', 1, Len(blocks)) = blocks]_vars

\* C4 witness: a walk has returned two entities of different types.
C4_Witness ==
    /\ Returned
    /\ Len(blocks) >= 2
    /\ blocks[1].type # blocks[2].type
    /\ blockOffsets[1] < blockOffsets[2]

\* How the current call of parse ended, as its caller sees it.
Outcome == [outcome |-> pc, main_data_block |-> IF pc = "done" THEN blocks ELSE <<>>]

\* C5: decoding is deterministic.  A second parse of the same buffer object
\* with the same parser instance, after the first parse has XORed the buffer
\* in place, ends as the first did and with the same entity list.
C5_Deterministic ==
    (run >= 2 /\ Ended) => Outcome = firstResult

\* C6: an unknown tag byte terminates the walk.  Once the walker has read a tag
\* byte outside 1..9, no entity whose tag byte lies after the unknown tag is
\* ever in the block list.
C6_UnknownTagTerminates ==
    unknownAt # -1 => \A i \in 1..Len(blockOffsets) : blockOffsets[i] < unknownAt

\* C7: when DES decryption of a DATA block fails, the block's entity keeps the
\* ciphertext, its parsed part data has no sub-blocks, and the part data is
\* decoded from no bytes other than the block's own payload.
C7_DecryptFailureEmptyPart ==
    \A i \in 1..Len(blocks) :
        (/\ blocks[i].type = "DATA"
         /\ decryptWithDES(blocks[i].encrypted_data, input.crypto).threw)
            => LET b == blocks[i]
                   own == PartDataParse(b.encrypted_data, b.block_size)
               IN  /\ b.encrypted_data = Bytes(buffer, blockOffsets[i] + 5, b.block_size)
                   /\ b.parsed_data.type = "part" => b.parsed_data.sub_blocks = <<>>
                   /\ b.parsed_data = IF own.threw THEN Null ELSE own.val

\* C8: an overrun inside a part aborts only that part.  The entity of a DATA
\* block that decrypts carries a Part whose sub_blocks are the sub-blocks decoded
\* before the overrun (none when the plaintext is shorter than the part header).
C8_PartialPart ==
    \A i \in 1..Len(blocks) :
        (/\ blocks[i].type = "DATA"
         /\ ~decryptWithDES(blocks[i].encrypted_data, input.crypto).threw)
            => LET b == blocks[i]
                   plain == b.decrypted_data
                   header == parseHeader(plain)
                   decoded ==
                       IF header.threw THEN <<>>
                       ELSE subBlockLoop(SliceTo(plain, 4 + header.val.part_size),
                                         header.off, b.block_size, <<>>).val
               IN  /\ b.parsed_data.type = "part"
                   /\ b.parsed_data.sub_blocks = decoded

\* C9: range and frame of the XOR pass.  When byte 0x10 of the buffer given to
\* parse is non-zero, then from the end of the pass on every byte below `end`
\* is its original value XOR the original byte 0x10 and every other byte is
\* unchanged, `end` being the least index where the sentinel lies in the
\* original buffer, or the buffer length when it lies nowhere.
C9_XorRangeAndFrame ==
    (/\ pc # "parse"
     /\ CanRead(original, KEY_OFFSET, 1)
     /\ original[KEY_OFFSET + 1] # 0)
        => \E end \in 0..Len(original) :
             /\ LET at(e) == /\ e + Len(Sentinel) <= Len(original)
                             /\ \A j \in 1..Len(Sentinel) : original[e + j] = Sentinel[j]
                IN  \/ at(end) /\ \A e \in 0..(end - 1) : ~at(e)
                    \/ end = Len(original) /\ \A e \in 0..Len(original) : ~at(e)
             /\ Len(buffer) = Len(original)
             /\ \A i \in 1..Len(original) :
                  buffer[i] = IF i - 1 < end
                              THEN BitXor(original[i], original[KEY_OFFSET + 1])
                              ELSE original[i]

\* C9 witness: the parse of an obfuscated file that ends with the sentinel has
\* returned entities; bytes before the sentinel changed and the sentinel did not.
C9_Witness ==
    /\ Returned /\ run = 1
    /\ input.key # 0 /\ input.sentinel /\ input.cut = 0
    /\ Len(blocks) >= 1
    /\ buffer # original
    /\ buffer[Len(buffer)] = original[Len(original)]

\* C10: when byte 0x10 of the buffer given to parse is zero, parse XORs nothing:
\* the buffer stays byte for byte what it was.
C10_ClearFileUntouched ==
    (/\ pc # "parse"
     /\ CanRead(original, KEY_OFFSET, 1)
     /\ original[KEY_OFFSET + 1] = 0)
        => buffer = original

\* C10 witness: the parse of a clear file whose bytes next to 0x10 are non-zero
\* has returned entities.
C10_Witness ==
    /\ Returned /\ run = 1
    /\ input.hdr = "part"
    /\ original[KEY_OFFSET + 1] = 0 /\ original[KEY_OFFSET] # 0
    /\ Len(blocks) >= 1

\* C11: string length.  The VIA text, the TEXT body and the part group name of
\* every entity, and the label and the pin name decoded at every offset of a
\* part's view, are the decoding of exactly the `size` bytes that follow the
\* size field, and the cursor moves by exactly `size` over them; a size of 0
\* gives the empty string and leaves the cursor where it was.
C11_StringLength ==
    /\ [](\A i \in 1..Len(blocks) :
            LET b == blocks[i]
                p == blockOffsets[i]
            IN  /\ b.type = "VIA" =>
                     b.via_text = Utf8Decode(Bytes(buffer, p + 37, getUint32(buffer, p + 33)))
                /\ b.type = "TEXT" =>
                     /\ b.text_length = getUint32(buffer, p + 31)
                     /\ b.text = Utf8Decode(Bytes(buffer, p + 35, b.text_length))
                     /\ b.text_length = 0 => b.text = <<>>
                /\ (b.type = "DATA" /\ b.parsed_data.type = "part") =>
                     LET plain == IF decryptWithDES(b.encrypted_data, input.crypto).threw
                                  THEN buffer ELSE b.decrypted_data
                         h == b.parsed_data.header
                     IN  /\ h.part_group_name_size = getUint32(plain, 22)
                         /\ h.part_group_name =
                                Utf8Decode(Bytes(plain, 26, h.part_group_name_size))
                /\ (b.type = "DATA" /\ i = Len(blocks)) =>
                     \A o \in 0..Len(b.decrypted_data) :
                         LET view == b.decrypted_data
                             label == parseSubType06(view, o)
                             pin == parsePin(view, o)
                         IN  /\ ~label.threw =>
                                  /\ label.val.label_size = getUint32(view, o + 30)
                                  /\ label.val.label =
                                         Utf8Decode(Bytes(view, o + 34, label.val.label_size))
                                  /\ label.off = o + 34 + label.val.label_size
                             /\ ~pin.threw =>
                                  /\ pin.val.name_size = getUint32(view, o + 20)
                                  /\ pin.val.name =
                                         Utf8Decode(Bytes(view, o + 24, pin.val.name_size))
                                  /\ pin.off = o + 24 + pin.val.name_size + 49)
    /\ [][/\ (DispatchStep(2) /\ pc' = "walk") =>
                offset' = offset + 37 + getUint32(buffer, offset + 33)
          /\ (DispatchStep(6) /\ pc' = "walk") =>
                offset' = offset + 35 + getUint32(buffer, offset + 31)]_vars

\* C11 witness: a VIA with a two-byte text and a part whose label is one
\* character decoded from two bytes and whose pins are named "" and "P1" have
\* been decoded.
C11_Witness ==
    /\ Returned
    /\ Len(blocks) = 2
    /\ blocks[1].type = "VIA" /\ blocks[1].via_text = <<65, 49>>
    /\ blocks[2].type = "DATA" /\ blocks[2].parsed_data.type = "part"
    /\ blocks[2].parsed_data.header.part_group_name = <<85>>
    /\ Len(blocks[2].parsed_data.sub_blocks) = 2
    /\ blocks[2].parsed_data.sub_blocks[1].label = <<233>>
    /\ blocks[2].parsed_data.sub_blocks[1].label_size = 2
    /\ Len(blocks[2].parsed_data.sub_blocks[2].pins) = 2
    /\ blocks[2].parsed_data.sub_blocks[2].pins[1].name = <<>>
    /\ blocks[2].parsed_data.sub_blocks[2].pins[2].name = <<80, 49>>

\* C12: every pin of every decoded part has its through-hole flag true exactly
\* when its inner_diameter is not zero.
C12_ThruHoleFlag ==
    \A i \in 1..Len(blocks) :
        (blocks[i].type = "DATA" /\ blocks[i].parsed_data.type = "part") =>
            \A k \in 1..Len(blocks[i].parsed_data.sub_blocks) :
                LET sub == blocks[i].parsed_data.sub_blocks[k]
                IN  sub.type = "sub_type_09" =>
                        \A n \in 1..Len(sub.pins) :
                            sub.pins[n].isThruHole_pin = (sub.pins[n].inner_diameter # 0)

\* C12 witness: a part with a surface pin and a through-hole pin has been decoded.
C12_Witness ==
    \E i \in 1..Len(blocks) :
        /\ blocks[i].type = "DATA" /\ blocks[i].parsed_data.type = "part"
        /\ \E k \in 1..Len(blocks[i].parsed_data.sub_blocks) :
             LET sub == blocks[i].parsed_data.sub_blocks[k]
             IN  /\ sub.type = "sub_type_09"
                 /\ \E n, m \in 1..Len(sub.pins) :
                      /\ sub.pins[n].inner_diameter = 0 /\ ~sub.pins[n].isThruHole_pin
                      /\ sub.pins[m].inner_diameter = 30 /\ sub.pins[m].isThruHole_pin

\* C13: a SEGMENT block decodes to one Segment whose layer, x1, y1, x2, y2,
\* scale and net_index are the seven 32-bit little-endian words after the
\* block_size word, in that order; the cursor ends 32 bytes after the tag byte;
\* and the file of the single segment (1; 100, 200, 300, 400, 20000, 7) yields
\* exactly that entity.
C13_SegmentLayout ==
    /\ [](/\ \A i \in 1..Len(blocks) :
               LET b == blocks[i]
                   p == blockOffsets[i]
               IN  b.type = "SEGMENT" =>
                       b = [type |-> "SEGMENT",
                            layer |-> getUint32(buffer, p + 5),
                            x1 |-> getInt32(buffer, p + 9),
                            y1 |-> getInt32(buffer, p + 13),
                            x2 |-> getInt32(buffer, p + 17),
                            y2 |-> getInt32(buffer, p + 21),
                            scale |-> getInt32(buffer, p + 25),
                            net_index |-> getUint32(buffer, p + 29)]
          /\ (/\ Returned
              /\ input = Scenario(<<"seg">>, 0, 0, FALSE, "zero", TRUE, 0))
                 => blocks = <<[type |-> "SEGMENT", layer |-> 1, x1 |-> 100, y1 |-> 200,
                                x2 |-> 300, y2 |-> 400, scale |-> 20000,
                                net_index |-> 7]>>)
    /\ [][(DispatchStep(5) /\ pc' = "walk") =>
             /\ offset' = offset + 1 + 32
             /\ Len(blocks') = Len(blocks) + 1
             /\ blocks'[Len(blocks')].type = "SEGMENT"]_vars

\* C13 witness: the file of the single segment has been parsed to its end.
C13_Witness ==
    /\ Returned
    /\ input.frames = <<"seg">> /\ input.cut = 0 /\ input.shrink = 0
    /\ Len(blocks) = 1
    /\ blocks[1].type = "SEGMENT" /\ blocks[1].y1 = 200 /\ blocks[1].x2 = 300
    /\ offset = MAIN_START + 33

\* C14: every value the progress callback is given during parse has a percent
\* within 0..100.
C14_PercentInRange ==
    \A k \in 1..Len(progress) : progress[k].percent >= 0 /\ progress[k].percent <= 100

\* C15: cursor bound.  After every step of the outer walker the cursor is
\* between 0 and the buffer length.
C15_CursorBound ==
    pc \in {"walk", "done"} => offset >= 0 /\ offset <= Len(buffer)

\* C16: a DATA block whose payload fits in the buffer adds exactly one DATA
\* entity whose recorded ciphertext is the block_size bytes after the size word,
\* and leaves the cursor 4 + block_size bytes past the tag byte, whether or not
\* decryption and part parsing succeed.
C16_DataBlockFrame ==
    [][(/\ DispatchStep(7)
        /\ CanRead(buffer, offset + 1, 4)
        /\ CanRead(buffer, offset + 5, getUint32(buffer, offset + 1)))
          => LET blockSize == getUint32(buffer, offset + 1)
                 last == blocks'[Len(blocks')]
             IN  /\ pc' = "walk"
                 /\ offset' = offset + 1 + 4 + blockSize
                 /\ Len(blocks') = Len(blocks) + 1
                 /\ SubSeq(blocks', 1, Len(blocks)) = blocks
                 /\ last.type = "DATA"
                 /\ last.block_size = blockSize
                 /\ Len(last.encrypted_data) = blockSize
                 /\ last.encrypted_data = Bytes(buffer, offset + 5, blockSize)]_vars

\* C16 witness: a DATA block whose decryption failed and one whose part was
\* decoded have both been walked, and the cursor is at the end of the file.
C16_Witness ==
    /\ Returned
    /\ input.frames = <<"dataBad7", "dataLine">>
    /\ Len(blocks) = 2
    /\ decryptWithDES(blocks[1].encrypted_data, input.crypto).threw
    /\ blocks[2].parsed_data.type = "part"
    /\ Len(blocks[2].parsed_data.sub_blocks) = 1
    /\ offset = Len(buffer)

\* C17: dispatching tag 0x04 or 0x08 advances the cursor by exactly one byte,
\* the tag byte itself, and adds no entity, so the byte after the tag is the
\* next thing the walk examines.
C17_NoOpOneByte ==
    [][(DispatchStep(4) \/ DispatchStep(8))
          => /\ offset' = offset + 1
             /\ blocks' = blocks]_vars

\* C18: the walk starts at 0x44, and it examines a padding word or a tag byte
\* (a step that moves the cursor or throws) only at a cursor p with
\* 0x44 <= p < 0x44 + main_size and p < buffer length, main_size being the
\* little-endian u32 at 0x40; with main_size = 0 the board has no entity.
C18_MainRegionBound ==
    /\ [][(pc = "header" /\ pc' = "walk") => offset' = MAIN_START]_vars
    /\ [][(pc = "walk" /\ (offset' # offset \/ pc' = "threw"))
             => /\ MAIN_START <= offset
                /\ offset < MAIN_START + getUint32(buffer, MAIN_SIZE_OFFSET)
                /\ offset < Len(buffer)]_vars
    /\ []((Returned /\ getUint32(buffer, MAIN_SIZE_OFFSET) = 0) => blocks = <<>>)

\* C18 witness: the walk has returned with entities, its cursor at the end of
\* the main region and bytes of the buffer still beyond it.
C18_Witness ==
    /\ Returned
    /\ Len(blocks) >= 1
    /\ offset = MAIN_START + getUint32(buffer, MAIN_SIZE_OFFSET)
    /\ offset < Len(buffer)

\* C19: in every iteration of the walk the 4-byte probe is made only when four
\* bytes remain in the buffer; when the four bytes at the cursor are all zero the
\* cursor advances by exactly 4 and no entity is added; otherwise exactly one
\* tag byte is consumed before the dispatch (an unknown tag moves the cursor by
\* one byte).
C19_PaddingStep ==
    [][IterationStep
          => /\ CanRead(buffer, offset, 4)
             /\ getUint32(buffer, offset) = 0
                  => (pc' = "walk" /\ offset' = offset + 4 /\ blocks' = blocks)
             /\ (getUint32(buffer, offset) # 0 /\ getUint8(buffer, offset) \notin BlockTags)
                  => (pc' = "walk" /\ offset' = offset + 1 /\ blocks' = blocks)]_vars

\* C20: a length-prefixed skip block (tag 0x03 or 0x09 of the outer stream)
\* whose size field can be read advances the cursor by exactly 4 + size bytes
\* after the tag byte and adds no entity; with size = 0 only the size field is
\* consumed.
C20_SkipBlocks ==
    [][((DispatchStep(3) \/ DispatchStep(9)) /\ CanRead(buffer, offset + 1, 4))
          => /\ pc' = "walk"
             /\ offset' = offset + 1 + 4 + getUint32(buffer, offset + 1)
             /\ getUint32(buffer, offset + 1) = 0 => offset' = offset + 5
             /\ blocks' = blocks]_vars

\* C20 witness: a 0x03 block of size 3 and a 0x09 block of size 0 have been
\* skipped, leaving the cursor at the end of the file and no entity.
C20_Witness ==
    /\ Returned
    /\ input.frames = <<"skip3", "skip9">>
    /\ Len(buffer) = MAIN_START + 8 + 5
    /\ getUint32(buffer, MAIN_START + 1) = 3
    /\ getUint8(buffer, MAIN_START + 8) = 9
    /\ getUint32(buffer, MAIN_START + 9) = 0
    /\ offset = MAIN_START + 8 + 5
    /\ offset = Len(buffer)
    /\ blocks = <<>>

\* C21: findSequence returns the least index i such that the 11 bytes at
\* [i, i + 11) are the sentinel, and -1 when there is no such index, as in every
\* buffer shorter than 11 bytes; and when it returns -1 for a buffer whose byte
\* 0x10 is not zero, the XOR pass changes every byte of the buffer.
C21_FindSequence ==
    /\ [](\A n \in {Len(buffer)} \cup {k \in 0..(Len(Sentinel) + 1) : k <= Len(buffer)} :
            LET found(array, r) ==
                    LET at(i) == \A j \in 1..Len(Sentinel) : array[i + j] = Sentinel[j]
                        starts == 0..(Len(array) - Len(Sentinel))
                    IN  /\ Len(array) < Len(Sentinel) => r = -1
                        /\ IF \E i \in starts : at(i)
                           THEN r \in starts /\ at(r) /\ \A i \in 0..(r - 1) : ~at(i)
                           ELSE r = -1
                of(array) == found(array, findSequence(array, Sentinel))
            IN  of(SubSeq(buffer, 1, n)))
    /\ [][(/\ pc = "parse" /\ pc' = "header"
           /\ getUint8(buffer, KEY_OFFSET) # 0
           /\ findSequence(buffer, Sentinel) = -1)
             => buffer' = [i \in 1..Len(buffer) |->
                              BitXor(buffer[i], getUint8(buffer, KEY_OFFSET))]]_vars

\* C21 witness: the XOR pass has run on a buffer whose last 11 bytes are the
\* only occurrence of the sentinel, and stopped in front of them.
C21_Witness ==
    /\ pc = "header"
    /\ run = 1
    /\ original[KEY_OFFSET + 1] # 0
    /\ findSequence(original, Sentinel) = Len(original) - Len(Sentinel)
    /\ SubSeq(buffer, Len(buffer) - Len(Sentinel) + 1, Len(buffer)) = Sentinel
    /\ buffer[Len(buffer) - Len(Sentinel)] # original[Len(buffer) - Len(Sentinel)]

\* C22: the XOR pass is an involution: applied twice with the same key byte and
\* the same end index it restores every byte of the buffer; and within one call
\* of parse the pass runs at most once (the buffer changes only in the step that
\* leaves the start of parse, and a call never comes back to its start).
C22_XorInvolution ==
    /\ []((pc \in {"parse", "header"} /\ CanRead(buffer, KEY_OFFSET, 1))
            => \A xorKey \in {getUint8(original, KEY_OFFSET), 255} :
                 \A end \in {xoredDataLength(original), Len(buffer)} :
                    XorRange(XorRange(buffer, xorKey, end), xorKey, end) = buffer)
    /\ []((pc = "header" /\ getUint8(original, KEY_OFFSET) # 0)
            => XorRange(buffer, getUint8(original, KEY_OFFSET),
                        xoredDataLength(original)) = original)
    /\ [][buffer' # buffer => (pc = "parse" /\ pc' = "header")]_vars
    /\ [][pc' = "parse" => run' = run + 1]_vars

\* C22 witness: the pass has just changed an obfuscated buffer that carries the
\* sentinel, and a second application with the same key and end gives back the
\* buffer parse was called with.
C22_Witness ==
    /\ pc = "header"
    /\ run = 1
    /\ input.sentinel
    /\ getUint8(original, KEY_OFFSET) = 90
    /\ buffer # original
    /\ xoredDataLength(original) < Len(original)
    /\ XorRange(buffer, 90, xoredDataLength(original)) = original

\* C23: for every decoded part, the part walker reads a sub-type identifier
\* only at a cursor position at or after the end of the header, strictly below
\* part_size + 4 and below the length of the plaintext; and a part whose header
\* has part_size = 0 has empty sub_blocks.
C23_PartViewTruncation ==
    \A k \in 1..Len(blocks) :
        (blocks[k].type = "DATA" /\ blocks[k].parsed_data.type = "part")
          => LET inView(plain, part, offs) ==
                     /\ \A i \in 1..Len(offs) :
                            /\ offs[i] >= 26 + part.header.part_group_name_size
                            /\ offs[i] < part.header.part_size + 4
                            /\ offs[i] < Len(plain)
                     /\ Len(part.sub_blocks) <= Len(offs)
                     /\ part.header.part_size = 0 => part.sub_blocks = <<>>
                 walked(plain, part) ==
                     inView(plain, part,
                            subTagOffsets(SliceTo(plain, 4 + part.header.part_size),
                                          26 + part.header.part_group_name_size,
                                          blocks[k].block_size))
                 parsedFrom(b) ==
                     walked(PartInput(buffer, b.encrypted_data,
                                      decryptWithDES(b.encrypted_data, input.crypto)),
                            b.parsed_data)
             IN  parsedFrom(blocks[k])

\* C23 witness: a part whose plaintext goes on with a second line after
\* part_size + 4 has exactly its first line, and a part with part_size = 0
\* followed by a line has no sub-block.
C23_Witness ==
    /\ Returned
    /\ input.frames = <<"dataTrunc", "dataZero">>
    /\ Len(blocks) = 2
    /\ blocks[1].parsed_data.type = "part"
    /\ blocks[1].parsed_data.header.part_size + 4 < Len(blocks[1].decrypted_data)
    /\ Len(blocks[1].parsed_data.sub_blocks) = 1
    /\ getUint8(blocks[1].decrypted_data, blocks[1].parsed_data.header.part_size + 4) = 5
    /\ blocks[2].parsed_data.type = "part"
    /\ blocks[2].parsed_data.header.part_size = 0
    /\ Len(blocks[2].decrypted_data) > 26
    /\ blocks[2].parsed_data.sub_blocks = <<>>

\* C24: when the part walker reads a sub-type identifier outside
\* {0x01, 0x05, 0x06, 0x09} it reads no further identifier, and the part keeps
\* the header and exactly the sub-blocks decoded before that identifier, in
\* stream order.
C24_UnknownSubTagStops ==
    \A k \in 1..Len(blocks) :
        (blocks[k].type = "DATA" /\ blocks[k].parsed_data.type = "part")
          => LET stopped(plain, view, part, offs) ==
                     \A i \in 1..Len(offs) :
                        getUint8(view, offs[i]) \notin SubTags
                          => /\ i = Len(offs)
                             /\ part.header = parseHeader(plain).val
                             /\ Len(part.sub_blocks) = i - 1
                             /\ \A j \in 1..(i - 1) :
                                   part.sub_blocks[j] =
                                       subBlockHandler(getUint8(view, offs[j]), view,
                                                       offs[j] + 1,
                                                       blocks[k].block_size).val
                 walked(plain, view, part) ==
                     stopped(plain, view, part,
                             subTagOffsets(view, 26 + part.header.part_group_name_size,
                                           blocks[k].block_size))
                 viewed(plain, part) ==
                     walked(plain, SliceTo(plain, 4 + part.header.part_size), part)
                 parsedFrom(b) ==
                     viewed(PartInput(buffer, b.encrypted_data,
                                      decryptWithDES(b.encrypted_data, input.crypto)),
                            b.parsed_data)
             IN  parsedFrom(blocks[k])

\* C24 witness: a part whose plaintext is a line, the identifier 0x07 and
\* another line inside part_size has been decoded to the first line alone.
C24_Witness ==
    /\ Returned
    /\ input.frames = <<"dataUnkSub">>
    /\ Len(blocks) = 1
    /\ blocks[1].parsed_data.type = "part"
    /\ blocks[1].parsed_data.header.part_size + 4 = Len(blocks[1].decrypted_data)
    /\ getUint8(blocks[1].decrypted_data, 27 + 33) = 7
    /\ getUint8(blocks[1].decrypted_data, 27 + 33 + 1) = 5
    /\ Len(blocks[1].parsed_data.sub_blocks) = 1
    /\ blocks[1].parsed_data.sub_blocks[1].type = "sub_type_05"

\* C25: in every pin array of a decoded part, with size field block_size, each
\* pin was read at a cursor with cursor + block_size <= the block_size of the
\* outer DATA block, the loop ended at a cursor with cursor + block_size above
\* it, and no returned pin overshoots the buffer the part walker reads: the
\* whole record of every pin lies inside the view.
C25_PinArrayStop ==
    \A k \in 1..Len(blocks) :
        (blocks[k].type = "DATA" /\ blocks[k].parsed_data.type = "part")
          => LET budget == blocks[k].block_size
                 array(view, sub, start) ==
                     /\ \A i \in 1..Len(sub.pins) :
                           /\ pinCursor(sub.pins, start, i) + sub.block_size <= budget
                           /\ pinCursor(sub.pins, start, i + 1) <= Len(view)
                     /\ pinCursor(sub.pins, start, Len(sub.pins) + 1) + sub.block_size
                            > budget
                 arrays(view, part, offs) ==
                     \A j \in 1..Len(part.sub_blocks) :
                         part.sub_blocks[j].type = "sub_type_09"
                            => array(view, part.sub_blocks[j], offs[j] + 1 + 4)
                 walked(view, part) ==
                     arrays(view, part,
                            subTagOffsets(view, 26 + part.header.part_group_name_size,
                                          budget))
                 viewed(plain, part) ==
                     walked(SliceTo(plain, 4 + part.header.part_size), part)
                 parsedFrom(b) ==
                     viewed(PartInput(buffer, b.encrypted_data,
                                      decryptWithDES(b.encrypted_data, input.crypto)),
                            b.parsed_data)
             IN  parsedFrom(blocks[k])

\* C26, as the claim states it: in every decoded part the header parser leaves
\* the cursor at 22 + group_name_size, and each sub-parser advances the cursor
\* by the width of its layout: an arc 36 bytes, a line 32, a label
\* 34 + label_size, each pin 73 + name_size with net_index read 24 bytes after
\* the position of the shape byte.
C26_SubParserWidthsAsClaimed ==
    \A k \in 1..Len(blocks) :
        (blocks[k].type = "DATA" /\ blocks[k].parsed_data.type = "part")
          => LET budget == blocks[k].block_size
                 pinsWide(view, sub, start) ==
                     \A i \in 1..Len(sub.pins) :
                        LET at(cursor, shapeAt) ==
                                /\ parsePin(view, cursor).off
                                       = cursor + 73 + sub.pins[i].name_size
                                /\ sub.pins[i].shape = getUint8(view, shapeAt)
                                /\ sub.pins[i].net_index = getUint32(view, shapeAt + 24)
                            from(cursor) ==
                                at(cursor, cursor + 24 + sub.pins[i].name_size + 8)
                        IN  from(pinCursor(sub.pins, start, i))
                 wide(view, sub, from, to) ==
                     CASE sub.type = "sub_type_01" -> to = from + 36
                       [] sub.type = "sub_type_05" -> to = from + 32
                       [] sub.type = "sub_type_06" -> to = from + 34 + sub.label_size
                       [] sub.type = "sub_type_09" ->
                            /\ to = pinCursor(sub.pins, from + 4, Len(sub.pins) + 1)
                            /\ pinsWide(view, sub, from + 4)
                 widths(view, part, offs, end) ==
                     \A j \in 1..Len(part.sub_blocks) :
                        wide(view, part.sub_blocks[j], offs[j] + 1,
                             IF j < Len(offs) THEN offs[j + 1] ELSE end)
                 walked(view, part, header, end) ==
                     /\ header.off = 22 + part.header.part_group_name_size
                     /\ widths(view, part, subTagOffsets(view, header.off, budget), end)
                 viewed(plain, part) ==
                     walked(SliceTo(plain, 4 + part.header.part_size), part,
                            parseHeader(plain), PartDataParse(plain, budget).off)
                 parsedFrom(b) ==
                     viewed(PartInput(buffer, b.encrypted_data,
                                      decryptWithDES(b.encrypted_data, input.crypto)),
                            b.parsed_data)
             IN  parsedFrom(blocks[k])

\* C26, amended: the same with the header parser leaving the cursor at
\* 26 + group_name_size (part_size and 4 bytes of padding, three u32, the two
\* bytes of visibility and the u32 size of the name, then the name).
C26_SubParserWidths ==
    \A k \in 1..Len(blocks) :
        (blocks[k].type = "DATA" /\ blocks[k].parsed_data.type = "part")
          => LET budget == blocks[k].block_size
                 pinsWide(view, sub, start) ==
                     \A i \in 1..Len(sub.pins) :
                        LET at(cursor, shapeAt) ==
                                /\ parsePin(view, cursor).off
                                       = cursor + 73 + sub.pins[i].name_size
                                /\ sub.pins[i].shape = getUint8(view, shapeAt)
                                /\ sub.pins[i].net_index = getUint32(view, shapeAt + 24)
                            from(cursor) ==
                                at(cursor, cursor + 24 + sub.pins[i].name_size + 8)
                        IN  from(pinCursor(sub.pins, start, i))
                 wide(view, sub, from, to) ==
                     CASE sub.type = "sub_type_01" -> to = from + 36
                       [] sub.type = "sub_type_05" -> to = from + 32
                       [] sub.type = "sub_type_06" -> to = from + 34 + sub.label_size
                       [] sub.type = "sub_type_09" ->
                            /\ to = pinCursor(sub.pins, from + 4, Len(sub.pins) + 1)
                            /\ pinsWide(view, sub, from + 4)
                 widths(view, part, offs, end) ==
                     \A j \in 1..Len(part.sub_blocks) :
                        wide(view, part.sub_blocks[j], offs[j] + 1,
                             IF j < Len(offs) THEN offs[j + 1] ELSE end)
                 walked(view, part, header, end) ==
                     /\ header.off = 26 + part.header.part_group_name_size
                     /\ widths(view, part, subTagOffsets(view, header.off, budget), end)
                 viewed(plain, part) ==
                     walked(SliceTo(plain, 4 + part.header.part_size), part,
                            parseHeader(plain), PartDataParse(plain, budget).off)
                 parsedFrom(b) ==
                     viewed(PartInput(buffer, b.encrypted_data,
                                      decryptWithDES(b.encrypted_data, input.crypto)),
                            b.parsed_data)
             IN  parsedFrom(blocks[k])

\* C26 witness: a part with a named header, an arc, a line, a label and a pin
\* array of one named pin has been decoded, each at its place.
C26_Witness ==
    /\ Returned
    /\ input.frames = <<"dataAll">>
    /\ Len(blocks) = 1
    /\ blocks[1].parsed_data.type = "part"
    /\ blocks[1].parsed_data.header.part_group_name_size = 2
    /\ Len(blocks[1].parsed_data.sub_blocks) = 4
    /\ blocks[1].parsed_data.sub_blocks[1].type = "sub_type_01"
    /\ blocks[1].parsed_data.sub_blocks[2].type = "sub_type_05"
    /\ blocks[1].parsed_data.sub_blocks[3].label = <<76>>
    /\ blocks[1].parsed_data.sub_blocks[4].pins[1].name = <<80, 49, 50>>
    /\ blocks[1].parsed_data.sub_blocks[4].pins[1].net_index = 5
    /\ PartDataParse(blocks[1].decrypted_data, blocks[1].block_size).off
           = Len(blocks[1].decrypted_data)

\* C27: the progress events of a call of parse come in the order init, XOR
\* (present exactly when byte 0x10 is not zero), header, walk, complete; during
\* the walk one event is issued after every 100th dispatched block and none
\* between them.
C27_ProgressOrder ==
    /\ [](LET rank(stage) ==
                  CASE stage = "Initializing parser" -> 0
                    [] stage = "Applying XOR decryption" -> 1
                    [] stage = "Reading file header" -> 2
                    [] stage = "Parsing data blocks" -> 3
                    [] stage = "Parsed blocks" -> 4
                    [] stage = "Completed parsing blocks" -> 5
                    [] stage = "Parsing complete" -> 6
              periodic == {i \in 1..Len(progress) : progress[i].stage = "Parsed blocks"}
              staged(r) == \E i \in 1..Len(progress) : rank(progress[i].stage) = r
          IN  /\ \A i \in 1..(Len(progress) - 1) :
                    \/ rank(progress[i].stage) < rank(progress[i + 1].stage)
                    \/ /\ progress[i].stage = "Parsed blocks"
                       /\ progress[i + 1].stage = "Parsed blocks"
              /\ pc # "parse" => staged(0)
              /\ pc \in {"header", "walk", "done"}
                    => (staged(1) <=> getUint8(original, KEY_OFFSET) # 0)
              /\ pc \in {"walk", "done"} => staged(2) /\ staged(3)
              /\ pc = "done" => staged(5) /\ staged(6)
              /\ \A i \in periodic :
                    progress[i].n = 100 * Cardinality({j \in periodic : j <= i})
              /\ pc = "walk" => Cardinality(periodic) = blockCount \div 100)
    /\ [][(pc = "walk" /\ pc' # "done")
             => (progress' # progress
                   <=> (blockCount' = blockCount + 1 /\ blockCount' % 100 = 0))]_vars

\* C27 witness: the parse of an obfuscated file of 101 blocks has returned after
\* the seven events init, XOR, header, walk, the report of block 100, the end of
\* the walk and complete.
C27_Witness ==
    /\ Returned
    /\ run = 1
    /\ getUint8(original, KEY_OFFSET) # 0
    /\ blockCount = 100 + 1
    /\ [i \in 1..Len(progress) |-> progress[i].stage]
           = <<"Initializing parser", "Applying XOR decryption", "Reading file header",
               "Parsing data blocks", "Parsed blocks", "Completed parsing blocks",
               "Parsing complete">>
    /\ progress[5].n = 100

\* C30: a call of hide that hides the modal leaves it not visible with the
\* display reset: the bar at 0, the percent text 0% and the stage
\* 'Initializing...'.
C30_HideResets ==
    [][(modal.isVisible /\ ~modal'.isVisible)
          => /\ ~modal'.overlayActive
             /\ modal'.barWidth = 0
             /\ modal'.pctText = 0
             /\ modal'.stageText = RESET_STAGE]_vars

\* C29: after any sequence of clicks on the layer buttons, 'Pin Rendering' and
\* 'Show All', a button carries the class 'active' exactly when its layer is in
\* activeLayers, and a via is displayed exactly when its start layer or its end
\* layer is in activeLayers.
C29_ToggleConsistency ==
    /\ \A layer \in DOMAIN panel.layerButtons :
          panel.layerButtons[layer] <=> layer \in panel.activeLayers
    /\ panel.pinsBtn <=> PINS_LAYER \in panel.activeLayers
    /\ \A v \in DOMAIN panel.viaDisplay :
          panel.viaDisplay[v] <=> (v[1] \in panel.activeLayers \/ v[2] \in panel.activeLayers)


(***************************************************************************)
(* C28: optimizePaths partitions the traces.  For every layer, each        *)
(* SEGMENT or ARC item of that layer appears in exactly one chain of that  *)
(* layer, once, and nothing else appears in a chain; within a chain all    *)
(* links have the same width (width, else scale); and the exit point of    *)
(* each link (p2 when forward, p1 otherwise) is the entry point of the     *)
(* next link.                                                              *)
(***************************************************************************)
linkExit(link) == IF link.forward THEN link.p2 ELSE link.p1

linkEntry(link) == IF link.forward THEN link.p1 ELSE link.p2

C28_PathsPartition ==
    traces.done =>
        LET data == traces.data
            paths == traces.pathsByLayer
            places(layer, id) ==
                {pl \in {<<c, k>> : c \in 1..Len(paths[layer]), k \in 1..MaxTraces} :
                    /\ pl[2] <= Len(paths[layer][pl[1]])
                    /\ paths[layer][pl[1]][pl[2]].id = id}
        IN  /\ \A i \in 1..Len(data) :
                  isTrace(data[i]) =>
                      /\ data[i].elem.layer \in DOMAIN paths
                      /\ \A layer \in DOMAIN paths :
                            Cardinality(places(layer, i - 1))
                                = IF layer = data[i].elem.layer THEN 1 ELSE 0
            /\ \A layer \in DOMAIN paths :
                  \A c \in 1..Len(paths[layer]) :
                      LET chain == paths[layer][c]
                      IN  /\ Len(chain) >= 1
                          /\ \A k \in 1..Len(chain) :
                                /\ chain[k].id + 1 \in 1..Len(data)
                                /\ isTrace(data[chain[k].id + 1])
                                /\ chain[k].data = data[chain[k].id + 1].elem
                                /\ widthOf(chain[k].data) = widthOf(chain[1].data)
                          /\ \A k \in 1..(Len(chain) - 1) :
                                linkExit(chain[k]) = linkEntry(chain[k + 1])

\* A chain that was extended backwards from its start element, next to a
\* chain of another width on the same layer.
C28_Witness ==
    /\ traces.done
    /\ traces.data = <<Segment(1, <<10, 0>>, <<10, 10>>, <<>>),
                       Segment(1, <<0, 0>>, <<10, 0>>, <<>>),
                       Segment(1, <<0, 0>>, <<10, 0>>, <<7>>)>>
    /\ Len(traces.pathsByLayer[1]) = 2
    /\ [k \in 1..2 |-> traces.pathsByLayer[1][1][k].id] = <<1, 0>>
    /\ [k \in 1..1 |-> traces.pathsByLayer[1][2][k].id] = <<2>>

=============================================================================
